---- MODULE Spec2Model ----
(***************************************************************************)
(* Model of the GLSL back end of XShaderCompiler:                          *)
(*   src/Compiler/Backend/GLSL/GLSLGenerator.cpp  (the emitter)            *)
(*   src/Compiler/AST/ASTEnums.cpp                (enum helpers)           *)
(*   src/Compiler/AST/AST.h                       (AST node fields)        *)
(*                                                                         *)
(* A pointer is a sequence of length 0 (null) or 1 (the referent).         *)
(* An emitted line is [sec, node, indent, text, entry, block]: text is the  *)
(* string written to the line, sec/node name the writer, entry/block are   *)
(* isInsideEntryPoint_ and isInsideInterfaceBlock_ when it was written.    *)
(***************************************************************************)
EXTENDS Integers, Sequences, FiniteSets, TLC

\* ------------------------------------------------------------------ bounds
MaxGlobals == 2     \* global statements of a generated program
MaxMembers == 2     \* member statements of a struct
MaxIndex   == 1     \* largest semantic index of an SV_Target output
MaxStmnts  == 2     \* statements in the body of the entry point
MaxParams  == 2     \* parameters of the entry point
MaxArgs    == 4     \* arguments of a call
MaxAttribs == 2     \* attributes of a function or statement
MaxSlot    == 2     \* largest slot number of a register
MaxBases   == 2     \* base structs in an inheritance chain
MaxDim     == 5     \* largest vector size handed to VectorDataType

Null == <<>>
Ptr(x) == <<x>>
IsNull(p) == Len(p) = 0
Deref(p) == p[1]

\* ------------------------------------------------------- ASTEnums: Semantic
\* Order of the Semantic enumeration (Undefined, UserDefined, system values).
SemanticOrder ==
    << "Undefined", "UserDefined",
       "ClipDistance", "CullDistance", "Coverage", "Depth", "DepthGreaterEqual",
       "DepthLessEqual", "DispatchThreadID", "DomainLocation", "GroupID",
       "GroupIndex", "GroupThreadID", "GSInstanceID", "InnerCoverage",
       "InsideTessFactor", "InstanceID", "IsFrontFace", "OutputControlPointID",
       "FragCoord", "PrimitiveID", "RenderTargetArrayIndex", "SampleIndex",
       "StencilRef", "Target", "TessFactor", "VertexID", "VertexPosition",
       "ViewportArrayIndex" >>

SemanticIdx(t) == CHOOSE i \in 1..Len(SemanticOrder) : SemanticOrder[i] = t

IsSystemSemantic(t) ==
    /\ SemanticIdx(t) >= SemanticIdx("ClipDistance")
    /\ SemanticIdx(t) <= SemanticIdx("ViewportArrayIndex")

\* --------------------------------------------------- GLSLKeywords (tables)
\* Semantic -> GLSL built-in; a null pointer when the semantic has none.
SemanticToGLSLKeyword(t) ==
    CASE t = "VertexPosition"   -> Ptr("gl_Position")
      [] t = "FragCoord"        -> Ptr("gl_FragCoord")
      [] t = "VertexID"         -> Ptr("gl_VertexID")
      [] t = "InstanceID"       -> Ptr("gl_InstanceID")
      [] t = "DispatchThreadID" -> Ptr("gl_GlobalInvocationID")
      [] t = "GroupID"          -> Ptr("gl_WorkGroupID")
      [] t = "GroupThreadID"    -> Ptr("gl_LocalInvocationID")
      [] t = "GroupIndex"       -> Ptr("gl_LocalInvocationIndex")
      [] t = "Depth"            -> Ptr("gl_FragDepth")
      [] t = "IsFrontFace"      -> Ptr("gl_FrontFacing")
      [] t = "Target"           -> Ptr("SV_Target")
      [] OTHER                  -> Null

\* DataType -> GLSL type keyword; a null pointer when there is none.
DataTypeToGLSLKeyword(t) ==
    CASE t = "Bool"     -> Ptr("bool")
      [] t = "Int"      -> Ptr("int")
      [] t = "UInt"     -> Ptr("uint")
      [] t = "Float"    -> Ptr("float")
      [] t = "Float2"   -> Ptr("vec2")
      [] t = "Float3"   -> Ptr("vec3")
      [] t = "Float4"   -> Ptr("vec4")
      [] t = "UInt3"    -> Ptr("uvec3")
      [] t = "Float4x4" -> Ptr("mat4")
      [] OTHER          -> Null

\* Storage class / interpolation modifier -> GLSL keyword, or null.
StorageClassToGLSLKeyword(c) ==
    CASE c = "nointerpolation" -> Ptr("flat")
      [] c = "linear"          -> Ptr("smooth")
      [] c = "centroid"        -> Ptr("centroid")
      [] c = "noperspective"   -> Ptr("noperspective")
      [] c = "sample"          -> Ptr("sample")
      [] c = "shared"          -> Ptr("shared")
      [] OTHER                 -> Null

\* std::to_string for the small numbers the model uses.
DecimalDigits == << "0", "1", "2", "3", "4", "5", "6", "7", "8", "9" >>

to_string(n) ==
    IF n \in 0..9 THEN DecimalDigits[n + 1]
    ELSE IF n \in 10..99 THEN DecimalDigits[(n \div 10) + 1] \o DecimalDigits[(n % 10) + 1]
    ELSE DecimalDigits[(n \div 100) + 1] \o DecimalDigits[((n \div 10) % 10) + 1]
                                         \o DecimalDigits[(n % 10) + 1]

\* ShaderTarget -> its display name.
TargetToString(t) ==
    CASE t = "VertexShader"                 -> "Vertex Shader"
      [] t = "TessellationControlShader"    -> "Tessellation-Control Shader"
      [] t = "TessellationEvaluationShader" -> "Tessellation-Evaluation Shader"
      [] t = "GeometryShader"               -> "Geometry Shader"
      [] t = "FragmentShader"               -> "Fragment Shader"
      [] t = "ComputeShader"                -> "Compute Shader"
      [] OTHER                              -> "Undefined"

\* ------------------------------------------- code writer of the generator
\* g is the generator object: [out, cur, indent, sec, node,
\*   isInsideEntryPoint, isInsideInterfaceBlock, singleOutputVariable, err].
\* Once an exception is in flight (err non-null) no further statement runs.
Failed(g) == ~IsNull(g.err)

CurText(g) == IF IsNull(g.cur) THEN "" ELSE Deref(g.cur)

BeginLn(g) == IF Failed(g) THEN g ELSE [g EXCEPT !.cur = Ptr("")]

Write(g, s) == IF Failed(g) THEN g ELSE [g EXCEPT !.cur = Ptr(CurText(g) \o s)]

EndLn(g) ==
    IF Failed(g) THEN g
    ELSE [g EXCEPT !.out = Append(@, [sec |-> g.sec, node |-> g.node,
                                      indent |-> g.indent, text |-> CurText(g),
                                      entry |-> g.isInsideEntryPoint,
                                      block |-> g.isInsideInterfaceBlock]),
                   !.cur = Null]

WriteLn(g, s) == EndLn(Write(BeginLn(g), s))

Blank(g) == WriteLn(g, "")

IncIndent(g) == IF Failed(g) THEN g ELSE [g EXCEPT !.indent = @ + 1]

DecIndent(g) == IF Failed(g) THEN g ELSE [g EXCEPT !.indent = @ - 1]

\* Generator::Error: throws a Report with the message and the AST node.
Error(g, msg, ast) ==
    IF Failed(g) THEN g
    ELSE [g EXCEPT !.err = Ptr([kind |-> "Report", msg |-> msg, ast |-> ast])]

\* An exception of the given kind thrown by a collaborator.
Throw(g, kind, msg) ==
    IF Failed(g) THEN g
    ELSE [g EXCEPT !.err = Ptr([kind |-> kind, msg |-> msg, ast |-> "none"])]

SetSec(g, s, n) == IF Failed(g) THEN g ELSE [g EXCEPT !.sec = s, !.node = n]

\* ---------------------------------------------- ASTEnums: operator tables
g_mapAssignOp(o) ==
    CASE o = "Set" -> Ptr("=")  [] o = "Add" -> Ptr("+=") [] o = "Sub" -> Ptr("-=")
      [] o = "Mul" -> Ptr("*=") [] o = "Div" -> Ptr("/=") [] o = "Mod" -> Ptr("%=")
      [] o = "LShift" -> Ptr("<<=") [] o = "RShift" -> Ptr(">>=")
      [] o = "Or" -> Ptr("|=") [] o = "And" -> Ptr("&=") [] o = "Xor" -> Ptr("^=")
      [] OTHER -> Null

g_mapBinaryOp(o) ==
    CASE o = "LogicalAnd" -> Ptr("&&") [] o = "LogicalOr" -> Ptr("||")
      [] o = "Or" -> Ptr("|") [] o = "Xor" -> Ptr("^") [] o = "And" -> Ptr("&")
      [] o = "LShift" -> Ptr("<<") [] o = "RShift" -> Ptr(">>")
      [] o = "Add" -> Ptr("+") [] o = "Sub" -> Ptr("-") [] o = "Mul" -> Ptr("*")
      [] o = "Div" -> Ptr("/") [] o = "Mod" -> Ptr("%")
      [] o = "Equal" -> Ptr("==") [] o = "NotEqual" -> Ptr("!=")
      [] o = "Less" -> Ptr("<") [] o = "Greater" -> Ptr(">")
      [] o = "LessEqual" -> Ptr("<=") [] o = "GreaterEqual" -> Ptr(">=")
      [] OTHER -> Null

g_mapUnaryOp(o) ==
    CASE o = "LogicalNot" -> Ptr("!") [] o = "Not" -> Ptr("~") [] o = "Nop" -> Ptr("+")
      [] o = "Negate" -> Ptr("-") [] o = "Inc" -> Ptr("++") [] o = "Dec" -> Ptr("--")
      [] OTHER -> Null

g_mapCtrlTransfer(o) ==
    CASE o = "Break" -> Ptr("break") [] o = "Continue" -> Ptr("continue")
      [] o = "Discard" -> Ptr("discard")
      [] OTHER -> Null

\* TypeToString: the mapped string, or std::invalid_argument (MapFailed).
\* WriteMapped writes prefix + mapped string + suffix, or throws.
WriteMapped(g, entry, prefix, suffix, typeName) ==
    IF IsNull(entry) THEN Throw(g, "exception", "failed to map " \o typeName \o " to string")
    ELSE Write(g, prefix \o Deref(entry) \o suffix)

\* Conditional forms of the writer calls.
WriteIf(g, cond, s) == IF cond THEN Write(g, s) ELSE g

BlankIf(g, cond) == IF cond THEN Blank(g) ELSE g

\* Writes the mapped keyword and a suffix, or raises the error.
WriteKeyword(g, keyword, suffix, msg, ast) ==
    IF ~IsNull(keyword) THEN Write(g, Deref(keyword) \o suffix) ELSE Error(g, msg, ast)

\* ------------------------------------------------------------ expressions
\* Expr:     [type |-> "LiteralExpr", value]
\*           [type |-> "VarAccessExpr", varIdent, assignOp, assignExpr (ptr)]
\*           [type |-> "BinaryExpr", lhsExpr, op, rhsExpr]
\*           [type |-> "UnaryExpr" | "PostUnaryExpr", op, expr]
\*           [type |-> "BracketExpr", expr]
\*           [type |-> "ListExpr", firstExpr, nextExpr]
\*           [type |-> "TernaryExpr", condExpr, thenExpr, elseExpr]
\*           [type |-> "TypeNameExpr", typeDenoter]
\*           [type |-> "CastExpr", typeExpr, expr]
\*           [type |-> "FunctionCallExpr", call]
\* An expression whose type a caller asks for carries it as typeDenoter.
\* VarIdent: [ident, arrayIndices (seq of Expr), next (ptr to VarIdent)]
RECURSIVE VisitExpr(_, _), VisitVarIdent(_, _), WriteArrayDims(_, _),
          WriteTypeDenoter(_, _, _)

WriteArrayDims(g, arrayDims) ==
    IF Len(arrayDims) = 0 THEN g
    ELSE WriteArrayDims(Write(VisitExpr(Write(g, "["), Head(arrayDims)), "]"), Tail(arrayDims))

VisitVarIdentNext(g, ast) ==
    IF ~IsNull(ast.next) THEN VisitVarIdent(Write(g, "."), Deref(ast.next)) ELSE g

VisitVarIdent(g, ast) ==
    VisitVarIdentNext(WriteArrayDims(Write(g, ast.ident), ast.arrayIndices), ast)

VisitAssignExpr(g, ast) ==
    IF ~IsNull(ast.assignExpr)
    THEN VisitExpr(WriteMapped(g, g_mapAssignOp(ast.assignOp), " ", " ", "AssignOp"),
                   Deref(ast.assignExpr))
    ELSE g

VisitVarAccessExpr(g, ast) == VisitAssignExpr(VisitVarIdent(g, ast.varIdent), ast)

VisitBinaryExpr(g, ast) ==
    VisitExpr(WriteMapped(VisitExpr(g, ast.lhsExpr), g_mapBinaryOp(ast.op), " ", " ", "BinaryOp"),
              ast.rhsExpr)

VisitUnaryExpr(g, ast) ==
    VisitExpr(WriteMapped(g, g_mapUnaryOp(ast.op), "", "", "UnaryOp"), ast.expr)

VisitPostUnaryExpr(g, ast) ==
    WriteMapped(VisitExpr(g, ast.expr), g_mapUnaryOp(ast.op), "", "", "UnaryOp")

VisitBracketExpr(g, ast) == Write(VisitExpr(Write(g, "("), ast.expr), ")")

VisitLiteralExpr(g, ast) == Write(g, ast.value)

\* ListExpr, TernaryExpr, TypeNameExpr, CastExpr (lines 887-911, 957-963).
VisitListExpr(g, ast) == VisitExpr(Write(VisitExpr(g, ast.firstExpr), ", "), ast.nextExpr)

VisitTernaryExpr(g, ast) ==
    VisitExpr(Write(VisitExpr(Write(VisitExpr(g, ast.condExpr), " ? "), ast.thenExpr), " : "),
              ast.elseExpr)

VisitTypeNameExpr(g, ast) == WriteTypeDenoter(g, ast.typeDenoter, "TypeNameExpr")

VisitCastExpr(g, ast) ==
    Write(VisitExpr(Write(VisitExpr(g, ast.typeExpr), "("), ast.expr), ")")

\* ------------------------------------------------------------------- calls
\* FunctionCall: [varIdent (ptr to VarIdent), typeDenoter (ptr), arguments,
\*                intrinsic, isTexFunc]
\* texFuncMap_ as EstablishMaps fills it: member function -> GLSL function.
texFuncMap_(memberFuncName) ==
    CASE memberFuncName = "GetDimensions " -> Ptr("textureSize")
      [] memberFuncName = "Load"           -> Ptr("texelFetch")
      [] memberFuncName = "Sample"         -> Ptr("texture")
      [] memberFuncName = "SampleBias"     -> Ptr("textureOffset")
      [] memberFuncName = "SampleGrad"     -> Ptr("textureGrad")
      [] memberFuncName = "SampleLevel"    -> Ptr("textureLod")
      [] OTHER                             -> Null

\* enum Intrinsic, in the order of its declaration (alphabetical): the
\* Interlocked family and some of its neighbours.
IntrinsicOrder ==
    << "Undefined", "Abs", "Clip", "Dot", "InterlockedAdd", "InterlockedAnd",
       "InterlockedCompareExchange", "InterlockedCompareStore", "InterlockedExchange",
       "InterlockedMax", "InterlockedMin", "InterlockedOr", "InterlockedXor",
       "IsNaN", "Mul", "Normalize", "Rcp", "Saturate" >>

IntrinsicIdx(t) == CHOOSE i \in 1..Len(IntrinsicOrder) : IntrinsicOrder[i] = t

\* Intrinsic -> GLSL keyword, or null.
IntrinsicToGLSLKeyword(t) ==
    CASE t = "Abs"                        -> Ptr("abs")
      [] t = "Dot"                        -> Ptr("dot")
      [] t = "Normalize"                  -> Ptr("normalize")
      [] t = "InterlockedAdd"             -> Ptr("atomicAdd")
      [] t = "InterlockedAnd"             -> Ptr("atomicAnd")
      [] t = "InterlockedOr"              -> Ptr("atomicOr")
      [] t = "InterlockedXor"             -> Ptr("atomicXor")
      [] t = "InterlockedMin"             -> Ptr("atomicMin")
      [] t = "InterlockedMax"             -> Ptr("atomicMax")
      [] t = "InterlockedCompareExchange" -> Ptr("atomicCompSwap")
      [] t = "InterlockedCompareStore"    -> Ptr("atomicCompSwap")
      [] t = "InterlockedExchange"        -> Ptr("atomicExchange")
      [] OTHER                            -> Null

\* VarIdent::ToString: the identifiers of the chain joined by ".".
RECURSIVE VarIdentToString(_)
VarIdentToString(varIdent) ==
    IF IsNull(varIdent.next) THEN varIdent.ident
    ELSE varIdent.ident \o "." \o VarIdentToString(Deref(varIdent.next))

\* TypedAST::GetTypeDenoter()->Get(): the type the analysis derived for the
\* expression, aliases resolved.
RECURSIVE Get(_)
Get(typeDenoter) ==
    IF typeDenoter.kind = "Alias" /\ ~IsNull(typeDenoter.aliasDeclRef)
    THEN Get(Deref(typeDenoter.aliasDeclRef))
    ELSE typeDenoter

GetTypeDenoter(expr) == expr.typeDenoter

AssertIntrinsicNumArgs(g, ast, numArgsMin, numArgsMax) ==
    IF Len(ast.arguments) < numArgsMin \/ Len(ast.arguments) > numArgsMax
    THEN Error(g, "invalid number of arguments in intrinsic", "FunctionCall")
    ELSE g

\* The argument loops of lines 1403-1408 and 1509-1516.
RECURSIVE WriteArguments(_, _, _)
WriteArguments(g, arguments, i) ==
    IF i > Len(arguments) THEN g
    ELSE WriteArguments(WriteIf(VisitExpr(g, arguments[i]), i + 1 <= Len(arguments), ", "),
                        arguments, i + 1)

WriteFunctionName(g, ast) ==
    IF ~IsNull(ast.varIdent)
    THEN IF ast.intrinsic # "Undefined"
         THEN WriteKeyword(g, IntrinsicToGLSLKeyword(ast.intrinsic), "",
                  "failed to map intrinsic '" \o VarIdentToString(Deref(ast.varIdent))
                      \o "' to GLSL keyword", "FunctionCall")
         ELSE VisitVarIdent(g, Deref(ast.varIdent))
    ELSE IF ~IsNull(ast.typeDenoter)
    THEN WriteTypeDenoter(g, Deref(ast.typeDenoter), "FunctionCall")
    ELSE Error(g, "missing function name", "FunctionCall")

WriteFunctionCallStandard(g, ast) ==
    Write(WriteArguments(Write(WriteFunctionName(g, ast), "("), ast.arguments, 1), ")")

WriteMulArgument(g, expr) ==
    IF expr.type \in { "TernaryExpr", "BinaryExpr", "UnaryExpr", "PostUnaryExpr" }
    THEN Write(VisitExpr(Write(g, "("), expr), ")")
    ELSE VisitExpr(g, expr)

WriteMulArguments(g, ast) ==
    Write(WriteMulArgument(Write(WriteMulArgument(Write(g, "("), ast.arguments[1]), " * "),
                           ast.arguments[2]), ")")

WriteFunctionCallIntrinsicMul(g, ast) ==
    IF Failed(AssertIntrinsicNumArgs(g, ast, 2, 2))
    THEN AssertIntrinsicNumArgs(g, ast, 2, 2)
    ELSE WriteMulArguments(g, ast)

\* The division written whatever the type of the argument is.
WriteRcpOfAnyType(g, ast, expr) ==
    Write(VisitExpr(Write(WriteTypeDenoter(Write(g, "("), Get(GetTypeDenoter(expr)),
                                           "FunctionCall"),
                          "(1) / ("), expr), "))")

WriteRcp(g, ast, expr) ==
    IF Get(GetTypeDenoter(expr)).kind = "Base"
    THEN Write(VisitExpr(Write(WriteTypeDenoter(Write(g, "("), Get(GetTypeDenoter(expr)),
                                                "FunctionCall"),
                               "(1) / ("), expr), "))")
    ELSE Error(g, "invalid argument type for intrinsic 'rcp'", expr.type)

WriteFunctionCallIntrinsicRcp(g, ast) ==
    IF Failed(AssertIntrinsicNumArgs(g, ast, 1, 1))
    THEN AssertIntrinsicNumArgs(g, ast, 1, 1)
    ELSE WriteRcp(g, ast, ast.arguments[1])

WriteAtomic(g, ast, keyword) ==
    Write(VisitExpr(Write(VisitExpr(Write(
        IF Len(ast.arguments) >= 3 THEN Write(VisitExpr(g, ast.arguments[3]), " = ") ELSE g,
        keyword \o "("), ast.arguments[1]), ", "), ast.arguments[2]), ")")

WriteFunctionCallIntrinsicAtomic(g, ast) ==
    IF Failed(AssertIntrinsicNumArgs(g, ast, 2, 3))
    THEN AssertIntrinsicNumArgs(g, ast, 2, 3)
    ELSE IF ~IsNull(IntrinsicToGLSLKeyword(ast.intrinsic))
    THEN WriteAtomic(g, ast, Deref(IntrinsicToGLSLKeyword(ast.intrinsic)))
    ELSE Error(g, "failed to map intrinsic '" \o VarIdentToString(Deref(ast.varIdent))
                  \o "' to GLSL keyword", "FunctionCall")

\* Line 1498 reads varIdent->next->ident after Error has thrown or not: with
\* no member the function is left by the exception.
WriteTexCall(g, ast, memberFuncName) ==
    IF IsNull(texFuncMap_(memberFuncName))
    THEN Error(g, "texture member function \"" \o memberFuncName \o "\" is not supported",
               "FunctionCall")
    ELSE Write(WriteArguments(Write(g, Deref(texFuncMap_(memberFuncName)) \o "("),
                              ast.arguments, 1), ")")

WriteFunctionCallIntrinsicTex(g, ast) ==
    IF IsNull(Deref(ast.varIdent).next)
    THEN Error(g, "missing member function in texture intrinsic", "FunctionCall")
    ELSE WriteTexCall(g, ast, Deref(Deref(ast.varIdent).next).ident)

IsAtomicIntrinsic(t) ==
    /\ IntrinsicIdx(t) >= IntrinsicIdx("InterlockedAdd")
    /\ IntrinsicIdx(t) <= IntrinsicIdx("InterlockedXor")

\* The dispatch without the branch of the atomic intrinsics.
VisitFunctionCallNoAtomic(g, ast) ==
    IF ast.intrinsic = "Mul" THEN WriteFunctionCallIntrinsicMul(g, ast)
    ELSE IF ast.intrinsic = "Rcp" THEN WriteFunctionCallIntrinsicRcp(g, ast)
    ELSE IF ast.isTexFunc THEN WriteFunctionCallIntrinsicTex(g, ast)
    ELSE WriteFunctionCallStandard(g, ast)

VisitFunctionCall(g, ast) ==
    IF ast.intrinsic = "Mul" THEN WriteFunctionCallIntrinsicMul(g, ast)
    ELSE IF ast.intrinsic = "Rcp" THEN WriteFunctionCallIntrinsicRcp(g, ast)
    ELSE IF ast.isTexFunc THEN WriteFunctionCallIntrinsicTex(g, ast)
    ELSE IF IsAtomicIntrinsic(ast.intrinsic) THEN WriteFunctionCallIntrinsicAtomic(g, ast)
    ELSE WriteFunctionCallStandard(g, ast)

VisitFunctionCallExpr(g, ast) == VisitFunctionCall(g, ast.call)

VisitExpr(g, ast) ==
    IF Failed(g) THEN g
    ELSE CASE ast.type = "LiteralExpr"      -> VisitLiteralExpr(g, ast)
           [] ast.type = "VarAccessExpr"    -> VisitVarAccessExpr(g, ast)
           [] ast.type = "BinaryExpr"       -> VisitBinaryExpr(g, ast)
           [] ast.type = "UnaryExpr"        -> VisitUnaryExpr(g, ast)
           [] ast.type = "PostUnaryExpr"    -> VisitPostUnaryExpr(g, ast)
           [] ast.type = "BracketExpr"      -> VisitBracketExpr(g, ast)
           [] ast.type = "ListExpr"         -> VisitListExpr(g, ast)
           [] ast.type = "TernaryExpr"      -> VisitTernaryExpr(g, ast)
           [] ast.type = "TypeNameExpr"     -> VisitTypeNameExpr(g, ast)
           [] ast.type = "CastExpr"         -> VisitCastExpr(g, ast)
           [] ast.type = "FunctionCallExpr" -> VisitFunctionCallExpr(g, ast)
           [] OTHER                         -> g

\* ----------------------------------------------------------- type denoters
\* TypeDenoter: [kind |-> "Void"] | [kind |-> "Base", dataType]
\*   | [kind |-> "Struct", ident] | [kind |-> "Alias", ident, aliasDeclRef (ptr)]
\*   | [kind |-> "Array", baseTypeDenoter, arrayDims] | [kind |-> "Undefined"]
\*   | [kind |-> "Texture", textureDeclRef (ptr to [textureType])]
\* BufferType -> GLSL sampler keyword, or null.
BufferTypeToGLSLKeyword(t) ==
    CASE t = "Texture1D"   -> Ptr("sampler1D")
      [] t = "Texture2D"   -> Ptr("sampler2D")
      [] t = "Texture3D"   -> Ptr("sampler3D")
      [] t = "TextureCube" -> Ptr("samplerCube")
      [] OTHER             -> Null

WriteTypeDenoter(g, typeDenoter, ast) ==
    IF Failed(g) THEN g
    ELSE CASE typeDenoter.kind = "Void" -> Write(g, "void")
           [] typeDenoter.kind = "Base" ->
                WriteKeyword(g, DataTypeToGLSLKeyword(typeDenoter.dataType), "",
                             "failed to map data type to GLSL keyword", ast)
           [] typeDenoter.kind = "Texture" ->
                IF ~IsNull(typeDenoter.textureDeclRef)
                THEN WriteKeyword(g, BufferTypeToGLSLKeyword(Deref(typeDenoter.textureDeclRef).textureType),
                                  "", "failed to map texture type to GLSL keyword", ast)
                ELSE Error(g, "missing reference to texture type denoter", ast)
           [] typeDenoter.kind = "Struct" -> Write(g, typeDenoter.ident)
           [] typeDenoter.kind = "Alias" ->
                IF ~IsNull(typeDenoter.aliasDeclRef)
                THEN WriteTypeDenoter(g, Deref(typeDenoter.aliasDeclRef), ast)
                ELSE Error(g, "missing reference to type alias '" \o typeDenoter.ident \o "'", ast)
           [] typeDenoter.kind = "Array" ->
                WriteArrayDims(WriteTypeDenoter(g, typeDenoter.baseTypeDenoter, ast),
                               typeDenoter.arrayDims)
           [] OTHER -> Error(g, "failed to determine GLSL data type", ast)

\* ------------------------------------------------- generator: small helpers
OpenScope(g) == IncIndent(WriteLn(g, "{"))

CloseScope(g, semicolon) == WriteLn(DecIndent(g), IF semicolon THEN "};" ELSE "}")

Comment(g, text) == WriteLn(g, "// " \o text)

Version(g, versionNumber) == WriteLn(g, "#version " \o to_string(versionNumber))

Line(g, row) == IF g.allowLineMarks THEN WriteLn(g, "#line " \o to_string(row)) ELSE g

IsVersionOut(g, version) == g.versionOut >= version

SetInsideInterfaceBlock(g, b) == IF Failed(g) THEN g ELSE [g EXCEPT !.isInsideInterfaceBlock = b]

SetInsideEntryPoint(g, b) == IF Failed(g) THEN g ELSE [g EXCEPT !.isInsideEntryPoint = b]

MustResolveStructFragmentInput(g, ast) ==
    \/ (g.shaderTarget = "VertexShader" /\ ast.isShaderInput)
    \/ (g.shaderTarget = "FragmentShader" /\ ast.isShaderInput)
    \/ (g.shaderTarget = "ComputeShader" /\ (ast.isShaderInput \/ ast.isShaderOutput))

MustResolveStruct(g, ast) ==
    \/ (g.shaderTarget = "VertexShader" /\ ast.isShaderInput)
    \/ (g.shaderTarget = "FragmentShader" /\ ast.isShaderOutput)
    \/ (g.shaderTarget = "ComputeShader" /\ (ast.isShaderInput \/ ast.isShaderOutput))

HasSystemValueSemantic(semantics) ==
    \E i \in 1..Len(semantics) : IsSystemSemantic(semantics[i])

\* ------------------------------------------------------------ declarations
\* VarDecl:      [ident, isLocalVar, disableCodeGen, isReachable, arrayDims,
\*                semantics (seq of Semantic), initializer (ptr)]
\* VarType:      [structDecl (ptr), symbolRef (ptr to StructDecl), typeDenoter]
\* VarDeclStmnt: [type |-> "VarDeclStmnt", row, isShaderInput, isShaderOutput,
\*                storageModifiers, typeModifiers, inputModifier, varType, varDecls]
\* StructDecl:   [ident, isReachable, isShaderInput, isShaderOutput, members,
\*                baseStructRef (ptr), aliasName]
VisitInitializer(g, ast) ==
    IF ~IsNull(ast.initializer) THEN VisitExpr(Write(g, " = "), Deref(ast.initializer)) ELSE g

VisitVarDecl(g, ast) ==
    VisitInitializer(
        WriteArrayDims(Write(WriteIf(g, ast.isLocalVar, g.localVarPrefix), ast.ident),
                       ast.arrayDims),
        ast)

RECURSIVE WriteVarDecls(_, _, _)
WriteVarDecls(g, varDecls, i) ==
    IF i > Len(varDecls) THEN g
    ELSE WriteVarDecls(WriteIf(VisitVarDecl(g, varDecls[i]), i + 1 <= Len(varDecls), ", "),
                       varDecls, i + 1)

RECURSIVE WriteStorageModifiers(_, _, _)
WriteStorageModifiers(g, ast, i) ==
    IF i > Len(ast.storageModifiers) THEN g
    ELSE WriteStorageModifiers(
             WriteKeyword(g, StorageClassToGLSLKeyword(ast.storageModifiers[i]), " ",
                 "not all storage classes or interpolation modifiers can be mapped to GLSL keyword",
                 "VarDeclStmnt"),
             ast, i + 1)

RECURSIVE WriteTypeModifiers(_, _)
WriteTypeModifiers(g, typeModifiers) ==
    IF Len(typeModifiers) = 0 THEN g
    ELSE WriteTypeModifiers(
             WriteIf(g, Head(typeModifiers) = "const", Head(typeModifiers) \o " "),
             Tail(typeModifiers))

\* The filter of VisitVarDeclStmnt: drops the declarations whose code
\* generation is disabled and system values inside an interface block.
KeepVarDecl(g, varDecl) ==
    ~( varDecl.disableCodeGen
       \/ (g.isInsideInterfaceBlock /\ HasSystemValueSemantic(varDecl.semantics)) )

RECURSIVE FilterVarDecls(_, _)
FilterVarDecls(g, varDecls) ==
    IF Len(varDecls) = 0 THEN << >>
    ELSE (IF KeepVarDecl(g, Head(varDecls)) THEN << Head(varDecls) >> ELSE << >>)
         \o FilterVarDecls(g, Tail(varDecls))

RECURSIVE VisitVarDeclStmnt(_, _), VisitVarType(_, _), VisitStructDecl(_, _, _),
          VisitStructDeclMembers(_, _), VisitMembers(_, _), VisitResolvedMembers(_, _, _)

VisitVarType(g, ast) ==
    IF ~IsNull(ast.structDecl) THEN VisitStructDecl(g, Deref(ast.structDecl), FALSE)
    ELSE WriteTypeDenoter(g, ast.typeDenoter, "VarType")

\* VisitVarDeclStmnt, lines 654-658.
WriteInOut(g, ast) ==
    IF ast.isShaderInput THEN Write(g, "in ")
    ELSE IF ast.isShaderOutput THEN Write(g, "out ")
    ELSE g

\* VisitVarDeclStmnt, lines 675-686.
WriteVarTypeOfStmnt(g, ast) ==
    IF ~IsNull(ast.varType.structDecl)
    THEN BeginLn(VisitVarType(EndLn(g), ast.varType))
    ELSE Write(VisitVarType(g, ast.varType), " ")

VisitVarDeclStmnt(g, ast) ==
    IF Failed(g) \/ Len(FilterVarDecls(g, ast.varDecls)) = 0 THEN g
    ELSE EndLn(Write(
             WriteVarDecls(
                 WriteVarTypeOfStmnt(
                     WriteTypeModifiers(
                         WriteStorageModifiers(WriteInOut(BeginLn(g), ast), ast, 1),
                         ast.typeModifiers),
                     ast),
                 FilterVarDecls(g, ast.varDecls), 1),
             ";"))

VisitMembers(g, members) ==
    IF Len(members) = 0 THEN g
    ELSE VisitMembers(VisitVarDeclStmnt(g, Head(members)), Tail(members))

VisitStructDeclMembers(g, ast) ==
    VisitMembers(
        IF ~IsNull(ast.baseStructRef) THEN VisitStructDeclMembers(g, Deref(ast.baseStructRef))
        ELSE g,
        ast.members)

\* member->flags << isShaderInput / isShaderOutput of VisitStructDecl
FlagMember(ast, member) ==
    IF ast.isShaderInput THEN [member EXCEPT !.isShaderInput = TRUE]
    ELSE IF ast.isShaderOutput THEN [member EXCEPT !.isShaderOutput = TRUE]
    ELSE member

VisitResolvedMembers(g, ast, i) ==
    IF i > Len(ast.members) THEN g
    ELSE VisitResolvedMembers(VisitVarDeclStmnt(g, FlagMember(ast, ast.members[i])), ast, i + 1)

\* VisitStructDecl, lines 343-359: the struct declaration.
WriteStructDeclaration(g, ast, semicolon) ==
    IF MustResolveStruct(g, ast) \/ (~ast.isShaderInput /\ ~ast.isShaderOutput)
    THEN CloseScope(
             VisitStructDeclMembers(
                 OpenScope(EndLn(WriteIf(Write(BeginLn(g), "struct"),
                                         ast.ident # "", " " \o ast.ident))),
                 ast),
             semicolon)
    ELSE g

\* VisitStructDecl, lines 378-398: the interface block.
WriteInterfaceBlock(g, ast) ==
    WriteLn(
        CloseScope(
            SetInsideInterfaceBlock(
                VisitMembers(
                    SetInsideInterfaceBlock(
                        OpenScope(EndLn(Write(
                            Write(BeginLn(g), IF ast.isShaderInput THEN "in" ELSE "out"),
                            " " \o "_I" \o ast.ident))),
                        TRUE),
                    ast.members),
                FALSE),
            FALSE),
        ast.aliasName \o ";")

\* VisitStructDecl, lines 361-399: resolved members, or the interface block.
WriteStructInterface(g, ast) ==
    IF MustResolveStruct(g, ast) THEN VisitResolvedMembers(g, ast, 1)
    ELSE IF ast.isShaderInput \/ ast.isShaderOutput THEN WriteInterfaceBlock(g, ast)
    ELSE g

VisitStructDecl(g, ast, semicolon) ==
    WriteStructInterface(WriteStructDeclaration(g, ast, semicolon), ast)

\* -------------------------------------------------------------- statements
\* Stmnt: [type |-> "ExprStmnt", expr] | [type |-> "ReturnStmnt", expr (ptr)]
\*      | [type |-> "NullStmnt"] | [type |-> "CtrlTransferStmnt", transfer]
\*      | [type |-> "CodeBlockStmnt", codeBlock] | VarDeclStmnt
\*      | [type |-> "WhileLoopStmnt", condition, bodyStmnt (ptr)]
\* CodeBlock: [stmnts]
\* g.program.outputSemantics: [returnType (VarType), functionSemantic,
\*                             singleOutputVariable]
WriteOutputSemantics(g, ast) ==
    IF g.program.outputSemantics.singleOutputVariable # ""
    THEN EndLn(Write(VisitExpr(Write(BeginLn(g),
                   g.program.outputSemantics.singleOutputVariable \o " = "), ast), ";"))
    ELSE g  \* struct return type: nothing is written (left as a TODO)

\* VisitReturnStmnt, lines 868-872.
VisitReturnValue(g, ast) ==
    IF ~IsNull(ast.expr) THEN VisitExpr(Write(g, " "), Deref(ast.expr)) ELSE g

VisitReturnStmnt(g, ast) ==
    IF g.isInsideEntryPoint
    THEN IF ~IsNull(ast.expr)
         THEN CloseScope(WriteLn(WriteOutputSemantics(OpenScope(g), Deref(ast.expr)), "return;"), FALSE)
         ELSE WriteLn(g, "return;")
    ELSE EndLn(Write(VisitReturnValue(Write(BeginLn(g), "return"), ast), ";"))

VisitExprStmnt(g, ast) == EndLn(Write(VisitExpr(BeginLn(g), ast.expr), ";"))

\* CtrlTransformToString throws std::invalid_argument when nothing is mapped.
VisitCtrlTransferStmnt(g, ast) ==
    IF IsNull(g_mapCtrlTransfer(ast.transfer))
    THEN Throw(g, "exception", "failed to map CtrlTransfer to string")
    ELSE WriteLn(g, Deref(g_mapCtrlTransfer(ast.transfer)) \o ";")

RECURSIVE VisitStmnt(_, _), VisitStmnts(_, _), VisitCodeBlock(_, _),
          VisitScopedStmnt(_, _), VisitWhileLoopStmnt(_, _)

VisitStmnts(g, stmnts) ==
    IF Len(stmnts) = 0 THEN g
    ELSE VisitStmnts(VisitStmnt(g, Head(stmnts)), Tail(stmnts))

VisitCodeBlock(g, ast) == CloseScope(VisitStmnts(OpenScope(g), ast.stmnts), FALSE)

\* The body indented and the indentation left as it is afterwards.
VisitScopedStmntUnmatched(g, ast) ==
    IF IsNull(ast) THEN g
    ELSE IF Deref(ast).type # "CodeBlockStmnt"
    THEN VisitStmnt(IncIndent(g), Deref(ast))
    ELSE VisitStmnt(g, Deref(ast))

\* ast is a pointer to a statement.
VisitScopedStmnt(g, ast) ==
    IF IsNull(ast) THEN g
    ELSE IF Deref(ast).type # "CodeBlockStmnt"
    THEN DecIndent(VisitStmnt(IncIndent(g), Deref(ast)))
    ELSE VisitStmnt(g, Deref(ast))

VisitWhileLoopStmnt(g, ast) ==
    VisitScopedStmnt(
        EndLn(Write(VisitExpr(Write(BeginLn(g), "while ("), ast.condition), ")")),
        ast.bodyStmnt)

VisitStmnt(g, ast) ==
    IF Failed(g) THEN g
    ELSE CASE ast.type = "ExprStmnt"         -> VisitExprStmnt(g, ast)
           [] ast.type = "ReturnStmnt"       -> VisitReturnStmnt(g, ast)
           [] ast.type = "NullStmnt"         -> WriteLn(g, ";")
           [] ast.type = "CtrlTransferStmnt" -> VisitCtrlTransferStmnt(g, ast)
           [] ast.type = "CodeBlockStmnt"    -> VisitCodeBlock(g, ast.codeBlock)
           [] ast.type = "WhileLoopStmnt"    -> VisitWhileLoopStmnt(g, ast)
           [] ast.type = "VarDeclStmnt"      -> VisitVarDeclStmnt(g, ast)
           [] OTHER                          -> g

\* ------------------------------------------------- entry point: input side
\* The result of WriteInputSemanticsParameterVarDecl (true: system value).
IsSystemValueVarDecl(varDecl) == IsSystemSemantic(Head(varDecl.semantics))

WriteInputSemanticsParameterVarDeclIfReachable(g, varDecl, declStmnt) ==
    IF IsSystemSemantic(Head(varDecl.semantics)) /\ varDecl.isReachable
    THEN IF ~IsNull(SemanticToGLSLKeyword(Head(varDecl.semantics)))
         THEN EndLn(Write(VisitVarType(BeginLn(g), declStmnt.varType),
                          " " \o varDecl.ident \o " = "
                              \o Deref(SemanticToGLSLKeyword(Head(varDecl.semantics))) \o ";"))
         ELSE Error(g, "failed to map semantic name to GLSL keyword", "VarSemantic")
    ELSE g

\* declStmnt is varDecl->declStmntRef.
WriteInputSemanticsParameterVarDecl(g, varDecl, declStmnt) ==
    IF IsSystemSemantic(Head(varDecl.semantics))
    THEN IF ~IsNull(SemanticToGLSLKeyword(Head(varDecl.semantics)))
         THEN EndLn(Write(VisitVarType(BeginLn(g), declStmnt.varType),
                          " " \o varDecl.ident \o " = "
                              \o Deref(SemanticToGLSLKeyword(Head(varDecl.semantics))) \o ";"))
         ELSE Error(g, "failed to map semantic name to GLSL keyword", "VarSemantic")
    ELSE g

\* All member variables of a struct parameter, member statement by statement.
RECURSIVE WriteInputSemanticsMemberVars(_, _, _), WriteInputSemanticsMembers(_, _)
WriteInputSemanticsMemberVars(g, member, i) ==
    IF i > Len(member.varDecls) THEN g
    ELSE WriteInputSemanticsMemberVars(
             WriteInputSemanticsParameterVarDecl(g, member.varDecls[i], member), member, i + 1)

WriteInputSemanticsMembers(g, members) ==
    IF Len(members) = 0 THEN g
    ELSE WriteInputSemanticsMembers(
             WriteInputSemanticsMemberVars(g, Head(members), 1), Tail(members))

\* WriteInputSemanticsParameter, lines 1056-1085.
WriteInputSemanticsOfParameter(g, ast) ==
    IF ~IsNull(ast.varType.symbolRef)
    THEN WriteInputSemanticsMembers(g, Deref(ast.varType.symbolRef).members)
    ELSE IF Len(Head(ast.varDecls).semantics) = 1
    THEN WriteInputSemanticsParameterVarDecl(g, Head(ast.varDecls), ast)
    ELSE g

WriteInputSemanticsParameter(g, ast) ==
    IF Len(ast.varDecls) # 1
    THEN Error(g, "invalid number of variables inside parameter of entry point", "VarDeclStmnt")
    ELSE WriteInputSemanticsOfParameter(g, ast)

\* The boolean result of WriteInputSemanticsParameter.
ParamsWritten(ast) ==
    IF ~IsNull(ast.varType.symbolRef)
    THEN \E i \in 1..Len(Deref(ast.varType.symbolRef).members) :
             \E j \in 1..Len(Deref(ast.varType.symbolRef).members[i].varDecls) :
                 IsSystemValueVarDecl(Deref(ast.varType.symbolRef).members[i].varDecls[j])
    ELSE Len(ast.varDecls) = 1 /\ Len(Head(ast.varDecls).semantics) = 1
             /\ IsSystemValueVarDecl(Head(ast.varDecls))

RECURSIVE WriteInputSemanticsParameters(_, _)
WriteInputSemanticsParameters(g, parameters) ==
    IF Len(parameters) = 0 THEN g
    ELSE WriteInputSemanticsParameters(
             WriteInputSemanticsParameter(g, Head(parameters)), Tail(parameters))

\* inputSemantics.parameters refer to parameters of the entry point (by index).
InputParameters(prog) ==
    [i \in 1..Len(prog.inputSemantics.parameters) |->
        prog.globalStmnts[Deref(prog.entryPointRef)].parameters[prog.inputSemantics.parameters[i]]]

WriteInputSemantics(g) ==
    BlankIf(WriteInputSemanticsParameters(g, InputParameters(g.program)),
            \E i \in 1..Len(InputParameters(g.program)) :
                ParamsWritten(InputParameters(g.program)[i]))

\* ------------------------------------------------------ global statements
\* FunctionDecl:     [type |-> "FunctionDecl", row, ident, isReachable,
\*                    isEntryPoint, returnType (VarType), semantic, parameters
\*                    (seq of VarDeclStmnt), attribs, codeBlock (ptr)]
\* BufferDeclStmnt:  [type |-> "BufferDeclStmnt", row, ident, isReachable,
\*                    registerName, members]
\* TextureDeclStmnt: [type |-> "TextureDeclStmnt", row, isReachable,
\*                    textureType, textureDecls (seq of [ident, isReachable,
\*                    registerName])]
\* StructDeclStmnt:  [type |-> "StructDeclStmnt", row, structDecl]
\* VisitParameter, lines 1265-1269.
VisitParameterIdent(g, ast) ==
    IF Len(ast.varDecls) = 1 THEN VisitVarDecl(g, Head(ast.varDecls))
    ELSE Error(g, "invalid number of variables in function parameter", "VarDeclStmnt")

VisitParameter(g, ast) ==
    VisitParameterIdent(
        Write(VisitVarType(
                  WriteTypeModifiers(
                      WriteIf(g, ast.inputModifier # "", ast.inputModifier \o " "),
                      ast.typeModifiers),
                  ast.varType),
              " "),
        ast)

RECURSIVE WriteParameters(_, _, _)
WriteParameters(g, parameters, i) ==
    IF i > Len(parameters) THEN g
    ELSE WriteParameters(
             WriteIf(VisitParameter(g, parameters[i]), i + 1 <= Len(parameters), ", "),
             parameters, i + 1)

\* VisitFunctionDecl, lines 478-503: the function header.
WriteFunctionHeader(g, ast) ==
    IF ast.isEntryPoint THEN Write(g, "void main()")
    ELSE WriteIf(
             Write(WriteParameters(
                       Write(VisitVarType(g, ast.returnType), " " \o ast.ident \o "("),
                       ast.parameters, 1),
                   ")"),
             IsNull(ast.codeBlock), ";")

\* VisitFunctionDecl, lines 507-531: the function body.
WriteFunctionBody(g, ast) ==
    IF IsNull(ast.codeBlock) THEN g
    ELSE IF ast.isEntryPoint
    THEN CloseScope(
             SetInsideEntryPoint(
                 VisitStmnts(SetInsideEntryPoint(WriteInputSemantics(OpenScope(g)), TRUE),
                             Deref(ast.codeBlock).stmnts),
                 FALSE),
             FALSE)
    ELSE VisitCodeBlock(g, Deref(ast.codeBlock))

VisitFunctionDeclUnconditional(g, ast) ==
    Blank(WriteFunctionBody(EndLn(WriteFunctionHeader(BeginLn(Line(g, ast.row)), ast)), ast))

VisitFunctionDecl(g, ast) ==
    IF ~ast.isReachable THEN g
    ELSE Blank(WriteFunctionBody(EndLn(WriteFunctionHeader(BeginLn(Line(g, ast.row)), ast)), ast))

\* A validation that accepts every register.
ValidateNoRegisterPrefix(g, registerName, prefix, ast) == g

ValidateRegisterPrefix(g, registerName, prefix, ast) ==
    IF registerName = "" \/ SubSeq(registerName, 1, 1) # prefix
    THEN Error(g, "invalid register prefix '" \o SubSeq(registerName, 1, 1)
                  \o "' (expected '" \o prefix \o "')", ast)
    ELSE g

\* registerName.substr(1)
RegisterNumber(registerName) == SubSeq(registerName, 2, Len(registerName))

\* BRegister: the validated register, as its number.
BRegister(g, registerName, before, after, ast) ==
    Write(ValidateRegisterPrefix(g, registerName, "b", ast),
          before \o RegisterNumber(registerName) \o after)

TRegister(g, registerName, before, after, ast) ==
    Write(ValidateRegisterPrefix(g, registerName, "t", ast),
          before \o RegisterNumber(registerName) \o after)

VisitBufferDeclStmnt(g, ast) ==
    IF ~ast.isReachable THEN g
    ELSE Blank(CloseScope(
             VisitMembers(
                 OpenScope(EndLn(Write(Write(
                     IF ast.registerName # ""
                     THEN BRegister(Write(BeginLn(Line(g, ast.row)), "layout(std140"),
                                    ast.registerName, ", binding = ", "", "BufferDeclStmnt")
                     ELSE Write(BeginLn(Line(g, ast.row)), "layout(std140"),
                     ") uniform "), ast.ident))),
                 ast.members),
             TRUE))

\* VisitTextureDeclStmnt, lines 580-597: one texture sampler.
WriteTextureDecl(g, texDecl, samplerType) ==
    EndLn(Write(
        IF texDecl.registerName # ""
        THEN TRegister(BeginLn(g), texDecl.registerName, "layout(binding = ", ") ", "TextureDecl")
        ELSE BeginLn(g),
        "uniform " \o samplerType \o " " \o texDecl.ident \o ";"))

RECURSIVE WriteTextureDecls(_, _, _, _)
WriteTextureDecls(g, ast, samplerType, i) ==
    IF i > Len(ast.textureDecls) THEN g
    ELSE WriteTextureDecls(
             IF ast.textureDecls[i].isReachable
             THEN WriteTextureDecl(g, ast.textureDecls[i], samplerType)
             ELSE g,
             ast, samplerType, i + 1)

VisitTextureDeclStmnt(g, ast) ==
    IF ~ast.isReachable THEN g
    ELSE IF IsNull(BufferTypeToGLSLKeyword(ast.textureType))
    THEN Error(g, "failed to map texture type to GLSL sampler type", "TextureDeclStmnt")
    ELSE Blank(WriteTextureDecls(g, ast, Deref(BufferTypeToGLSLKeyword(ast.textureType)), 1))

\* VisitStructDecl reads its flag out of the bytes of the argument pointer
\* itself (line 333), not out of the bool it points to: semicolon is whatever
\* the low byte of that address makes it.
VisitStructDeclStmnt(g, ast, semicolon) ==
    IF ~ast.structDecl.isReachable THEN g
    ELSE Blank(VisitStructDecl(Line(g, ast.row), ast.structDecl, semicolon))

\* The dispatch of Visit(ast) on a global statement.
VisitGlobalStmnt(g, ast, semicolon) ==
    IF Failed(g) THEN g
    ELSE CASE ast.type = "FunctionDecl"     -> VisitFunctionDecl(g, ast)
           [] ast.type = "BufferDeclStmnt"  -> VisitBufferDeclStmnt(g, ast)
           [] ast.type = "TextureDeclStmnt" -> VisitTextureDeclStmnt(g, ast)
           [] ast.type = "StructDeclStmnt"  -> VisitStructDeclStmnt(g, ast, semicolon)
           [] ast.type = "VarDeclStmnt"     -> VisitVarDeclStmnt(g, ast)
           [] OTHER                         -> g

\* The AST as VisitStructDecl leaves it: the members of a resolved struct
\* carry the struct's input/output flag from then on.
StmntAfterVisit(g, ast) ==
    IF /\ ast.type = "StructDeclStmnt"
       /\ ast.structDecl.isReachable
       /\ MustResolveStruct(g, ast.structDecl)
    THEN [ast EXCEPT !.structDecl.members =
              [i \in 1..Len(ast.structDecl.members) |->
                  FlagMember(ast.structDecl, ast.structDecl.members[i])]]
    ELSE ast

\* ------------------------------------------------------------ VisitProgram
\* Attribute: [ident, arguments (seq of Expr)]
AppendExtension(g, extensionName) == WriteLn(g, "#extension " \o extensionName \o " : enable")

RECURSIVE AppendExtensions(_, _)
AppendExtensions(g, exts) ==
    IF Len(exts) = 0 THEN g
    ELSE AppendExtensions(AppendExtension(g, Head(exts)), Tail(exts))

\* requiredExtensions: what GLSLExtensionAgent::DetermineRequiredExtensions
\* returns for the program and the output version.
AppendRequiredExtensions(g, requiredExtensions) ==
    IF Len(requiredExtensions) # 0 THEN Blank(AppendExtensions(g, requiredExtensions)) ELSE g

AppendClipIntrinsics(g) ==
    Blank(WriteLn(WriteLn(WriteLn(WriteLn(g,
        "void clip(float x) { if (x < 0.0) discard; }"),
        "void clip(vec2 x) { if (any(lessThan(x, vec2(0.0)))) discard; }"),
        "void clip(vec3 x) { if (any(lessThan(x, vec3(0.0)))) discard; }"),
        "void clip(vec4 x) { if (any(lessThan(x, vec4(0.0)))) discard; }"))

\* The helpers written whether or not the intrinsic is used.
AppendIntrinsicsUnconditional(g) == AppendClipIntrinsics(g)

AppendAllReferencedIntrinsics(g) ==
    IF "Clip" \in g.program.usedIntrinsics THEN AppendClipIntrinsics(g) ELSE g

WriteAttributeNumThreads(g, ast) ==
    IF Len(ast.arguments) = 3
    THEN EndLn(Write(
             VisitExpr(Write(
                 VisitExpr(Write(
                     VisitExpr(Write(BeginLn(g), "layout(local_size_x = "), ast.arguments[1]),
                     ", local_size_y = "), ast.arguments[2]),
                 ", local_size_z = "), ast.arguments[3]),
             ") in;"))
    ELSE Error(g, "invalid number of arguments for \"numthreads\" attribute", "Attribute")

WriteAttributeEarlyDepthStencil(g) == WriteLn(g, "layout(early_fragment_tests) in;")

\* Every attribute with arguments taken for numthreads.
WriteAttributeByArguments(g, ast) ==
    IF Len(ast.arguments) # 0 \/ ast.ident = "numthreads" THEN WriteAttributeNumThreads(g, ast)
    ELSE WriteAttributeEarlyDepthStencil(g)

WriteAttribute(g, ast) ==
    IF ast.ident = "numthreads" THEN WriteAttributeNumThreads(g, ast)
    ELSE IF ast.ident = "earlydepthstencil" THEN WriteAttributeEarlyDepthStencil(g)
    ELSE g

RECURSIVE WriteAttributes(_, _)
WriteAttributes(g, attribs) ==
    IF Len(attribs) = 0 THEN g
    ELSE WriteAttributes(WriteAttribute(g, Head(attribs)), Tail(attribs))

SetSingleOutputVariable(g, v) ==
    IF Failed(g) THEN g ELSE [g EXCEPT !.program.outputSemantics.singleOutputVariable = v]

\* WriteFragmentShaderOutput, lines 1162-1180: the SV_Target output. The
\* semantic index is not recorded: semanticIndex is the constant 0.
WriteFragmentShaderTarget(g, semanticKeyword, semanticIndex) ==
    IF IsVersionOut(g, 130)
    THEN SetSingleOutputVariable(
             EndLn(Write(
                 VisitVarType(
                     Write(BeginLn(g), "layout(location = " \o to_string(semanticIndex) \o ") out "),
                     g.program.outputSemantics.returnType),
                 " " \o semanticKeyword \o ";")),
             semanticKeyword)
    ELSE SetSingleOutputVariable(g, "gl_FragData[" \o to_string(semanticIndex) \o "]")

\* WriteFragmentShaderOutput, lines 1159-1187: a single output semantic.
WriteFragmentShaderSingleOutput(g, functionSemantic) ==
    IF ~IsNull(SemanticToGLSLKeyword(functionSemantic))
    THEN IF functionSemantic = "Target"
         THEN WriteFragmentShaderTarget(g, Deref(SemanticToGLSLKeyword(functionSemantic)), 0)
         ELSE IF functionSemantic = "Depth"
         THEN SetSingleOutputVariable(g, Deref(SemanticToGLSLKeyword(functionSemantic)))
         ELSE Error(g, "invalid output semantic for fragment shader: \""
                       \o Deref(SemanticToGLSLKeyword(functionSemantic)) \o "\"", "none")
    ELSE Error(g, "failed to map fragment shader output semantic to GLSL keyword", "none")

WriteFragmentShaderOutput(g) ==
    Blank(IF \/ ~IsNull(g.program.outputSemantics.returnType.symbolRef)
             \/ ~IsNull(g.program.outputSemantics.returnType.structDecl)
          THEN g   \* struct output: the loop over the members has no body
          ELSE WriteFragmentShaderSingleOutput(g, g.program.outputSemantics.functionSemantic))

EntryPoint(prog) == prog.globalStmnts[Deref(prog.entryPointRef)]

\* VisitProgram, lines 277-289.
WriteFragCoordLayout(g) ==
    IF g.shaderTarget = "FragmentShader"
    THEN Blank(EndLn(Write(
             WriteIf(Write(BeginLn(SetSec(g, "Layout", 0)), "layout(origin_upper_left"),
                     g.program.hasSM3ScreenSpace, ", pixel_center_integer"),
             ") in vec4 gl_FragCoord;")))
    ELSE g

\* VisitProgram, lines 291-297.
WriteEntryPointAttributes(g) ==
    IF Len(EntryPoint(g.program).attribs) # 0
    THEN Blank(WriteAttributes(SetSec(g, "Layout", 0), EntryPoint(g.program).attribs))
    ELSE g

\* VisitProgram, lines 302-303.
WriteFragmentShaderOutputOfStage(g) ==
    IF g.shaderTarget = "FragmentShader"
    THEN WriteFragmentShaderOutput(SetSec(g, "Output", 0))
    ELSE g

VisitProgramHeadIntrinsicsFirst(g, requiredExtensions) ==
    WriteFragmentShaderOutputOfStage(
        WriteEntryPointAttributes(
            WriteFragCoordLayout(
                AppendRequiredExtensions(
                    SetSec(AppendAllReferencedIntrinsics(SetSec(g, "Intrinsic", 0)),
                           "Extension", 0),
                    requiredExtensions))))

\* VisitProgram up to (not including) Visit(ast->globalStmnts).
VisitProgramHead(g, requiredExtensions) ==
    WriteFragmentShaderOutputOfStage(
        AppendAllReferencedIntrinsics(
            SetSec(WriteEntryPointAttributes(
                       WriteFragCoordLayout(
                           AppendRequiredExtensions(SetSec(g, "Extension", 0),
                                                    requiredExtensions))),
                   "Intrinsic", 0)))

\* ------------------------------------------------------ GenerateCodePrimary
\* inputDesc:  [shaderTarget, entryPoint]
\* outputDesc: [shaderVersion, prefix, lineMarks]
\* program:    [entryPointRef (ptr: index into globalStmnts), globalStmnts,
\*              hasSM3ScreenSpace, usedIntrinsics, inputSemantics,
\*              outputSemantics]
\* collab:     what the collaborators of this call do:
\*              [refAnalyzer, converter : "ok" or the kind of exception thrown,
\*               reach : idents MarkReferencesFromEntryPoint marks reachable,
\*               requiredExtensions : result of the extension agent]
\* gen:        the GLSLGenerator object
\* pc:         position inside GenerateCodePrimary
\* nextStmnt:  index of the next global statement Visit(globalStmnts) visits
\* passes:     the passes that have completed, in order
\* report:     the Report the call ended with (ptr)
\* calc:       arguments and results of the functions of ASTEnums applied
\*             on their own (null while a program is compiled)
VARIABLES inputDesc, outputDesc, program, collab, gen, pc, nextStmnt, passes, report, calc

vars == << inputDesc, outputDesc, program, collab, gen, pc, nextStmnt, passes, report, calc >>

GenInit ==
    [ shaderTarget |-> "Undefined", versionOut |-> 0, localVarPrefix |-> "",
      allowLineMarks |-> FALSE,
      out |-> << >>, cur |-> Null, indent |-> 0, sec |-> "None", node |-> 0,
      isInsideEntryPoint |-> FALSE, isInsideInterfaceBlock |-> FALSE,
      err |-> Null ]

GenFields == DOMAIN GenInit

\* The generator together with the program it works on (GetProgram()).
Bind(gn, prog) == [f \in GenFields \cup {"program"} |->
                      IF f = "program" THEN prog ELSE gn[f]]

Unbind(g) == [f \in GenFields |-> g[f]]

TimePoint == "<time point>"

\* The reference analyzer flags every declaration reachable from the entry
\* point; reach holds the identifiers it reaches.
MarkVarDecls(varDecls, reach) ==
    [i \in 1..Len(varDecls) |-> [varDecls[i] EXCEPT !.isReachable = varDecls[i].ident \in reach]]

MarkMembers(members, reach) ==
    [i \in 1..Len(members) |-> [members[i] EXCEPT !.varDecls = MarkVarDecls(@, reach)]]

MarkParameter(param, reach) ==
    [param EXCEPT !.varDecls = MarkVarDecls(@, reach),
                  !.varType.symbolRef =
                      IF IsNull(@) THEN @
                      ELSE Ptr([Deref(@) EXCEPT !.members = MarkMembers(@, reach)])]

MarkStmnt(ast, reach) ==
    CASE ast.type = "FunctionDecl" ->
             [ast EXCEPT !.isReachable = ast.isEntryPoint \/ ast.ident \in reach,
                         !.parameters = [i \in 1..Len(@) |-> MarkParameter(@[i], reach)]]
      [] ast.type = "BufferDeclStmnt" -> [ast EXCEPT !.isReachable = ast.ident \in reach]
      [] ast.type = "StructDeclStmnt" ->
             [ast EXCEPT !.structDecl.isReachable = ast.structDecl.ident \in reach]
      [] ast.type = "TextureDeclStmnt" ->
             LET decls == ast.textureDecls
             IN  [ast EXCEPT !.isReachable = (\E i \in 1..Len(decls) : decls[i].ident \in reach),
                             !.textureDecls = [i \in 1..Len(decls) |->
                                  [decls[i] EXCEPT !.isReachable = (decls[i].ident \in reach)]]]
      [] OTHER -> ast

MarkReferencesFromEntryPoint(prog, reach) ==
    [prog EXCEPT !.globalStmnts = [i \in 1..Len(@) |-> MarkStmnt(@[i], reach)]]

\* ---------------------------------------------------------- AST builders
BaseType(dataType) ==
    [structDecl |-> Null, symbolRef |-> Null,
     typeDenoter |-> [kind |-> "Base", dataType |-> dataType]]

VoidType ==
    [structDecl |-> Null, symbolRef |-> Null, typeDenoter |-> [kind |-> "Void"]]

StructType(structDecl) ==
    [structDecl |-> Null, symbolRef |-> Ptr(structDecl),
     typeDenoter |-> [kind |-> "Struct", ident |-> structDecl.ident]]

NewVarDecl(ident, semantics, disableCodeGen) ==
    [ident |-> ident, isLocalVar |-> FALSE, disableCodeGen |-> disableCodeGen,
     isReachable |-> FALSE, arrayDims |-> << >>, semantics |-> semantics,
     initializer |-> Null]

NewVarDeclStmnt(row, varType, varDecls) ==
    [type |-> "VarDeclStmnt", row |-> row, isShaderInput |-> FALSE,
     isShaderOutput |-> FALSE, storageModifiers |-> << >>, typeModifiers |-> << >>,
     inputModifier |-> "", varType |-> varType, varDecls |-> varDecls]

NewStructDecl(ident, isShaderInput, isShaderOutput, members, aliasName) ==
    [ident |-> ident, isReachable |-> FALSE, isShaderInput |-> isShaderInput,
     isShaderOutput |-> isShaderOutput, members |-> members,
     baseStructRef |-> Null, aliasName |-> aliasName]

NewFunctionDecl(row, ident, isEntryPoint, returnType, semantic, parameters, attribs, stmnts) ==
    [type |-> "FunctionDecl", row |-> row, ident |-> ident, isReachable |-> FALSE,
     isEntryPoint |-> isEntryPoint, returnType |-> returnType, semantic |-> semantic,
     parameters |-> parameters, attribs |-> attribs,
     codeBlock |-> Ptr([stmnts |-> stmnts])]

NewProgram(globalStmnts, entryPointRef, usedIntrinsics, hasSM3ScreenSpace, singleOutputVariable) ==
    [globalStmnts |-> globalStmnts, entryPointRef |-> entryPointRef,
     usedIntrinsics |-> usedIntrinsics, hasSM3ScreenSpace |-> hasSM3ScreenSpace,
     inputSemantics |->
         [parameters |->
             IF IsNull(entryPointRef) THEN << >>
             ELSE [i \in 1..Len(globalStmnts[Deref(entryPointRef)].parameters) |-> i]],
     outputSemantics |->
         [returnType |-> IF IsNull(entryPointRef) THEN VoidType
                         ELSE globalStmnts[Deref(entryPointRef)].returnType,
          functionSemantic |-> IF IsNull(entryPointRef) THEN "Undefined"
                               ELSE globalStmnts[Deref(entryPointRef)].semantic.semantic,
          singleOutputVariable |-> singleOutputVariable]]

Lit(value) == [type |-> "LiteralExpr", value |-> value]

Var(ident) ==
    [type |-> "VarAccessExpr",
     varIdent |-> [ident |-> ident, arrayIndices |-> << >>, next |-> Null],
     assignOp |-> "Undefined", assignExpr |-> Null]

Assign(ident, expr) ==
    [type |-> "VarAccessExpr",
     varIdent |-> [ident |-> ident, arrayIndices |-> << >>, next |-> Null],
     assignOp |-> "Set", assignExpr |-> Ptr(expr)]

Binary(lhsExpr, op, rhsExpr) ==
    [type |-> "BinaryExpr", lhsExpr |-> lhsExpr, op |-> op, rhsExpr |-> rhsExpr]

Return(expr) == [type |-> "ReturnStmnt", expr |-> expr]

NoSemantic == [semantic |-> "Undefined", index |-> 0]

\* Sequences without repetition of at most n of the numbers 1..k.
InjSeqs(k, n) ==
    { s \in UNION { [1..m -> 1..k] : m \in 0..n } :
        \A i, j \in DOMAIN s : i # j => s[i] # s[j] }

Stages ==
    << "VertexShader", "TessellationControlShader", "TessellationEvaluationShader",
       "GeometryShader", "FragmentShader", "ComputeShader" >>

ExceptionKinds == << "ok", "Report", "ASTRuntimeError", "exception" >>

\* ------------------------------------------------------- programs compiled
Start(idesc, odesc, prog, col) ==
    /\ inputDesc = idesc
    /\ outputDesc = odesc
    /\ program = prog
    /\ collab = col
    /\ gen = GenInit
    /\ pc = "start"
    /\ nextStmnt = 1
    /\ passes = << >>
    /\ report = Null
    /\ calc = Null

Rows(globalStmnts) ==
    [i \in 1..Len(globalStmnts) |-> [globalStmnts[i] EXCEPT !.row = i]]

UserParam(ident, dataType) ==
    NewVarDeclStmnt(0, BaseType(dataType), << NewVarDecl(ident, << "UserDefined" >>, FALSE) >>)

HelperFunction(op) ==
    NewFunctionDecl(0, "helper", FALSE, BaseType("Float"), NoSemantic,
        << NewVarDeclStmnt(0, BaseType("Float"), << NewVarDecl("x", << >>, FALSE) >>) >>,
        << >>,
        << Return(Ptr(Binary(Var("x"), op, Lit("2.0")))) >>)

VertexMain ==
    NewFunctionDecl(0, "main", TRUE, BaseType("Float4"),
        [semantic |-> "VertexPosition", index |-> 0],
        << UserParam("pos", "Float4") >>, << >>,
        << Return(Ptr(Var("pos"))) >>)

\* Global declarations the emitter rejects (1..3), or none (0).
FailingGlobal(k) ==
    CASE k = 1 -> << [type |-> "TextureDeclStmnt", row |-> 0, isReachable |-> FALSE,
                      textureType |-> "Undefined",
                      textureDecls |-> << [ident |-> "tex", isReachable |-> FALSE,
                                           registerName |-> ""] >>] >>
      [] k = 2 -> << [type |-> "BufferDeclStmnt", row |-> 0, ident |-> "Matrices",
                      isReachable |-> FALSE, registerName |-> "t0",
                      members |-> << NewVarDeclStmnt(0, BaseType("Float4x4"),
                                         << NewVarDecl("wvp", << >>, FALSE) >>) >>] >>
      [] k = 3 -> << HelperFunction("Undefined") >>
      [] OTHER -> << >>

\* Programs run through the whole call: with or without an entry point,
\* every outcome of the two passes before the emitter, every emitter failure.
InitPipeline ==
    \E k \in 0..3, hasEntry \in BOOLEAN, ra \in 1..Len(ExceptionKinds),
       cv \in 1..Len(ExceptionKinds), named \in BOOLEAN :
        LET globals == Rows(FailingGlobal(k) \o << [VertexMain EXCEPT !.isEntryPoint = hasEntry] >>)
        IN  Start([shaderTarget |-> "VertexShader",
                   entryPoint |-> IF named THEN "main" ELSE ""],
                  [shaderVersion |-> 330, prefix |-> "", lineMarks |-> FALSE],
                  NewProgram(globals, IF hasEntry THEN Ptr(Len(globals)) ELSE Null,
                             { }, FALSE, "gl_Position"),
                  [refAnalyzer |-> ExceptionKinds[ra], converter |-> ExceptionKinds[cv],
                   reach |-> { "tex", "Matrices", "helper" },
                   requiredExtensions |-> << >>])

\* Global declarations of every kind.
GlobalCatalogue ==
    << [type |-> "BufferDeclStmnt", row |-> 0, ident |-> "Matrices",
        isReachable |-> FALSE, registerName |-> "b0",
        members |-> << NewVarDeclStmnt(0, BaseType("Float4x4"),
                           << NewVarDecl("wvp", << >>, FALSE) >>) >>],
       [type |-> "TextureDeclStmnt", row |-> 0, isReachable |-> FALSE,
        textureType |-> "Texture2D",
        textureDecls |-> << [ident |-> "tex", isReachable |-> FALSE, registerName |-> "t1"] >>],
       [type |-> "StructDeclStmnt", row |-> 0,
        structDecl |-> NewStructDecl("Light", FALSE, FALSE,
            << NewVarDeclStmnt(0, BaseType("Float4"), << NewVarDecl("color", << >>, FALSE) >>) >>,
            "")],
       HelperFunction("Mul") >>

GlobalIdents == << "Matrices", "tex", "Light", "helper" >>

SectionMain(c) ==
    CASE c = 1 -> VertexMain
      [] c = 2 -> NewFunctionDecl(0, "main", TRUE, BaseType("Float4"),
                      [semantic |-> "Target", index |-> 0],
                      << UserParam("color", "Float4") >>,
                      << [ident |-> "earlydepthstencil", arguments |-> << >>] >>,
                      << Return(Ptr(Var("color"))) >>)
      [] OTHER -> NewFunctionDecl(0, "main", TRUE, VoidType, NoSemantic,
                      << NewVarDeclStmnt(0, BaseType("UInt3"),
                             << NewVarDecl("id", << "DispatchThreadID" >>, FALSE) >>) >>,
                      << [ident |-> "numthreads",
                          arguments |-> << Lit("8"), Lit("8"), Lit("1") >>] >>,
                      << [type |-> "ExprStmnt", expr |-> Assign("x", Var("id"))] >>)

SectionStage(c) ==
    CASE c = 1 -> "VertexShader" [] c = 2 -> "FragmentShader" [] OTHER -> "ComputeShader"

\* Programs with global declarations in every order, reached or not.
InitSections ==
    \E order \in InjSeqs(Len(GlobalCatalogue), MaxGlobals), c \in 1..3 :
      \E reach \in SUBSET { GlobalIdents[order[i]] : i \in DOMAIN order } :
        LET globals == Rows([i \in 1..Len(order) |-> GlobalCatalogue[order[i]]]
                            \o << SectionMain(c) >>)
        IN  Start([shaderTarget |-> SectionStage(c), entryPoint |-> "main"],
                  [shaderVersion |-> IF c = 3 THEN 430 ELSE 330, prefix |-> "",
                   lineMarks |-> (c = 2)],
                  NewProgram(globals, Ptr(Len(globals)),
                             IF c = 2 THEN { "Clip" } ELSE { }, c = 2,
                             IF c = 1 THEN "gl_Position" ELSE ""),
                  [refAnalyzer |-> "ok", converter |-> "ok",
                   reach |-> reach \cup { "id", "pos", "color" },
                   requiredExtensions |->
                       IF c = 2 THEN << "GL_ARB_shading_language_420pack" >> ELSE << >>])

\* Members of an input/output struct: user-defined and system-value
\* semantics, code generation enabled or disabled.
MemberCatalogue ==
    << NewVarDeclStmnt(0, BaseType("Float4"),
           << NewVarDecl("position", << "UserDefined" >>, FALSE) >>),
       NewVarDeclStmnt(0, BaseType("UInt"),
           << NewVarDecl("vertexID", << "VertexID" >>, FALSE) >>),
       NewVarDeclStmnt(0, BaseType("Float4"),
           << NewVarDecl("color", << "UserDefined" >>, TRUE) >>),
       NewVarDeclStmnt(0, BaseType("UInt"),
           << NewVarDecl("instanceID", << "InstanceID" >>, TRUE) >>) >>

StructMain(structDecl) ==
    NewFunctionDecl(0, "main", TRUE,
        IF structDecl.isShaderOutput THEN StructType(structDecl) ELSE VoidType,
        NoSemantic,
        IF structDecl.isShaderInput
        THEN << NewVarDeclStmnt(0, StructType(structDecl), << NewVarDecl("inp", << >>, FALSE) >>) >>
        ELSE << >>,
        << >>,
        IF structDecl.isShaderOutput THEN << Return(Ptr(Var("outp"))) >> ELSE << >>)

\* One struct used as parameter and/or return type of the entry point, in
\* every stage.
InitStructs ==
    \E st \in 1..Len(Stages), inp \in BOOLEAN, outp \in BOOLEAN,
       order \in InjSeqs(Len(MemberCatalogue), MaxMembers) :
        LET structDecl == NewStructDecl("Data", inp, outp,
                              [i \in 1..Len(order) |-> MemberCatalogue[order[i]]],
                              IF inp THEN "inp" ELSE "outp")
            globals == Rows(<< [type |-> "StructDeclStmnt", row |-> 0, structDecl |-> structDecl],
                               StructMain(structDecl) >>)
        IN  Start([shaderTarget |-> Stages[st], entryPoint |-> "main"],
                  [shaderVersion |-> 330, prefix |-> "", lineMarks |-> FALSE],
                  NewProgram(globals, Ptr(2), { }, FALSE, ""),
                  [refAnalyzer |-> "ok", converter |-> "ok",
                   reach |-> { "Data", "inp", "position", "vertexID", "color", "instanceID" },
                   requiredExtensions |-> << >>])

\* Statements of an entry point's body.
BodyCatalogue ==
    << Return(Ptr(Var("color"))),
       [type |-> "ExprStmnt", expr |-> Assign("color", Lit("1.0"))],
       [type |-> "CodeBlockStmnt",
        codeBlock |-> [stmnts |-> << Return(Ptr(Binary(Var("color"), "Mul", Lit("2.0")))) >>]],
       [NewVarDeclStmnt(0, BaseType("Float4"),
            << [NewVarDecl("tmp", << >>, FALSE) EXCEPT !.isLocalVar = TRUE,
                                                      !.initializer = Ptr(Var("color"))] >>)
        EXCEPT !.typeModifiers = << "const" >>] >>

\* Stage, return type, return semantic and output variable known before the
\* emitter runs, for each kind of single-value output.
OutputStage(kind) == IF kind = 4 THEN "VertexShader" ELSE "FragmentShader"

OutputType(kind) == IF kind \in {2, 5} THEN "Float" ELSE "Float4"

OutputSemantic(kind) ==
    CASE kind = 1 -> "Target" [] kind = 2 -> "Depth" [] kind = 3 -> "VertexPosition"
      [] kind = 4 -> "VertexPosition" [] OTHER -> "ClipDistance"

\* Entry points returning one value, with every semantic index and body.
InitOutputs ==
    \E kind \in 1..5, n \in 0..MaxIndex, version \in {120, 330},
       body \in InjSeqs(Len(BodyCatalogue), MaxStmnts) :
        LET main == NewFunctionDecl(0, "main", TRUE, BaseType(OutputType(kind)),
                        [semantic |-> OutputSemantic(kind), index |-> IF kind = 1 THEN n ELSE 0],
                        << UserParam("color", "Float4") >>, << >>,
                        [i \in 1..Len(body) |-> BodyCatalogue[body[i]]])
        IN  Start([shaderTarget |-> OutputStage(kind), entryPoint |-> "main"],
                  [shaderVersion |-> IF kind = 1 THEN version ELSE 330, prefix |-> "_",
                   lineMarks |-> FALSE],
                  NewProgram(Rows(<< main >>), Ptr(1), { }, FALSE,
                             IF kind = 4 THEN "gl_Position" ELSE ""),
                  [refAnalyzer |-> "ok", converter |-> "ok", reach |-> { "color" },
                   requiredExtensions |-> << >>])

\* Parameters of an entry point: a user-defined input, system values with
\* and without a GLSL built-in.
ParamCatalogue ==
    << UserParam("position", "Float4"),
       NewVarDeclStmnt(0, BaseType("UInt"), << NewVarDecl("vertexID", << "VertexID" >>, FALSE) >>),
       NewVarDeclStmnt(0, BaseType("Float"), << NewVarDecl("clip", << "ClipDistance" >>, FALSE) >>),
       NewVarDeclStmnt(0, BaseType("Float"), << NewVarDecl("depth", << "Depth" >>, FALSE) >>) >>

ParamIdents == << "position", "vertexID", "clip", "depth" >>

\* Entry points with every list of parameters, each used or not.
InitInputs ==
    \E st \in {1, 5, 6}, order \in InjSeqs(Len(ParamCatalogue), MaxParams) :
      \E reach \in SUBSET { ParamIdents[order[i]] : i \in DOMAIN order } :
        LET main == NewFunctionDecl(0, "main", TRUE, VoidType, NoSemantic,
                        [i \in 1..Len(order) |-> ParamCatalogue[order[i]]], << >>,
                        << [type |-> "ExprStmnt", expr |-> Assign("x", Lit("0"))] >>)
        IN  Start([shaderTarget |-> Stages[st], entryPoint |-> "main"],
                  [shaderVersion |-> 330, prefix |-> "", lineMarks |-> FALSE],
                  NewProgram(Rows(<< main >>), Ptr(1), { }, FALSE, ""),
                  [refAnalyzer |-> "ok", converter |-> "ok", reach |-> reach,
                   requiredExtensions |-> << >>])

\* ------------------------------------------------------------------ calls
Ident(ident, next) == [ident |-> ident, arrayIndices |-> << >>, next |-> next]

Call(varIdent, typeDenoter, arguments, intrinsic, isTexFunc) ==
    [type |-> "FunctionCallExpr",
     call |-> [varIdent |-> varIdent, typeDenoter |-> typeDenoter, arguments |-> arguments,
               intrinsic |-> intrinsic, isTexFunc |-> isTexFunc]]

\* The expression with the type its analysis derived.
Typed(expr, typeDenoter) == [typeDenoter |-> typeDenoter] @@ expr

\* The first n arguments of an (endlessly repeated) argument list.
Args(list, n) == [i \in 1..n |-> list[((i - 1) % Len(list)) + 1]]

\* Member functions called on a texture object; "" is a call on the object
\* itself, without a member.
TexMethods ==
    << "Sample", "SampleBias", "SampleGrad", "SampleLevel", "Load", "GetDimensions",
       "SampleCmp", "Gather", "" >>

TexArgs == << Var("s"), Var("uv"), Lit("0"), Var("w") >>

TexCall(method, n) ==
    Call(Ptr(Ident("t", IF method = "" THEN Null ELSE Ptr(Ident(method, Null)))),
         Null, Args(TexArgs, n), "Undefined", TRUE)

\* Operands of mul: one expression of every kind.
OperandCatalogue ==
    << Var("M"),
       Lit("2.0"),
       [type |-> "TernaryExpr", condExpr |-> Var("c"), thenExpr |-> Var("a"),
        elseExpr |-> Var("b")],
       Binary(Var("a"), "Add", Var("b")),
       [type |-> "UnaryExpr", op |-> "Negate", expr |-> Var("a")],
       [type |-> "PostUnaryExpr", op |-> "Inc", expr |-> Var("a")],
       [type |-> "CastExpr",
        typeExpr |-> [type |-> "TypeNameExpr",
                      typeDenoter |-> [kind |-> "Base", dataType |-> "Float3"]],
        expr |-> Var("a")],
       Assign("a", Var("b")),
       [type |-> "ListExpr", firstExpr |-> Var("a"), nextExpr |-> Var("b")],
       [type |-> "BracketExpr", expr |-> Binary(Var("a"), "Sub", Var("b"))],
       Call(Ptr(Ident("f", Null)), Null, << Var("a") >>, "Undefined", FALSE) >>

MulCall(a, b, n) ==
    Call(Ptr(Ident("mul", Null)), Null,
         [i \in 1..n |-> IF i = 1 THEN OperandCatalogue[a]
                         ELSE IF i = 2 THEN OperandCatalogue[b] ELSE Lit("0")],
         "Mul", FALSE)

\* Types of the argument of rcp: base types, an alias of one, and others.
RcpTypes ==
    << [kind |-> "Base", dataType |-> "Float"],
       [kind |-> "Base", dataType |-> "Float3"],
       [kind |-> "Base", dataType |-> "Int"],
       [kind |-> "Alias", ident |-> "real",
        aliasDeclRef |-> Ptr([kind |-> "Base", dataType |-> "Float"])],
       [kind |-> "Struct", ident |-> "Light"],
       [kind |-> "Array", baseTypeDenoter |-> [kind |-> "Base", dataType |-> "Float"],
        arrayDims |-> << Lit("4") >>],
       [kind |-> "Texture", textureDeclRef |-> Null] >>

RcpCall(a, m, n) ==
    Call(Ptr(Ident("rcp", Null)), Null,
         [i \in 1..n |-> Typed(OperandCatalogue[a], RcpTypes[m])], "Rcp", FALSE)

InterlockedFamily ==
    << "InterlockedAdd", "InterlockedAnd", "InterlockedOr", "InterlockedXor",
       "InterlockedCompareExchange", "InterlockedCompareStore", "InterlockedMin",
       "InterlockedMax", "InterlockedExchange" >>

AtomicArgs == << Var("counter"), Lit("1"), Var("prev"), Var("extra") >>

AtomicCall(m, n) ==
    Call(Ptr(Ident(InterlockedFamily[m], Null)), Null, Args(AtomicArgs, n),
         InterlockedFamily[m], FALSE)

\* Calls that take the standard path: a function of the program, mapped and
\* unmapped intrinsics, a type constructor, a call without a name.
StandardCall(m, n) ==
    CASE m = 1 -> Call(Ptr(Ident("helper", Null)), Null, Args(AtomicArgs, n), "Undefined", FALSE)
      [] m = 2 -> Call(Ptr(Ident("dot", Null)), Null, Args(AtomicArgs, n), "Dot", FALSE)
      [] m = 3 -> Call(Ptr(Ident("saturate", Null)), Null, Args(AtomicArgs, n), "Saturate", FALSE)
      [] m = 4 -> Call(Null, Ptr([kind |-> "Base", dataType |-> "Float2"]),
                       Args(AtomicArgs, n), "Undefined", FALSE)
      [] OTHER -> Call(Null, Null, Args(AtomicArgs, n), "Undefined", FALSE)

CallMain(call) ==
    NewFunctionDecl(0, "main", TRUE, VoidType, NoSemantic, << >>, << >>,
                    << [type |-> "ExprStmnt", expr |-> call] >>)

StartCall(call) ==
    Start([shaderTarget |-> "ComputeShader", entryPoint |-> "main"],
          [shaderVersion |-> 430, prefix |-> "", lineMarks |-> FALSE],
          NewProgram(Rows(<< CallMain(call) >>), Ptr(1), { }, FALSE, ""),
          [refAnalyzer |-> "ok", converter |-> "ok", reach |-> { },
           requiredExtensions |-> << >>])

\* Entry points whose body is one call: every texture method, mul and rcp
\* with every kind of operand, the Interlocked family, standard calls, each
\* with every number of arguments.
InitCalls ==
    \E n \in 0..MaxArgs :
        \/ \E m \in 1..Len(TexMethods) : StartCall(TexCall(TexMethods[m], n))
        \/ \E a, b \in 1..Len(OperandCatalogue) :
             /\ n # 2 => a = 1 /\ b = 1
             /\ StartCall(MulCall(a, b, n))
        \/ \E a \in 1..Len(OperandCatalogue), m \in 1..Len(RcpTypes) :
             /\ n # 1 => a = 1 /\ m = 1
             /\ StartCall(RcpCall(a, m, n))
        \/ \E m \in 1..Len(InterlockedFamily) : StartCall(AtomicCall(m, n))
        \/ \E m \in 1..5 : StartCall(StandardCall(m, n))

\* -------------------------------------------------------------- attributes
\* Attribute: [ident, arguments]
NumThreadsArgs == << Lit("8"), Lit("4"), Lit("1"), Lit("2") >>

AttributeCatalogue(n) ==
    << [ident |-> "numthreads", arguments |-> Args(NumThreadsArgs, n)],
       [ident |-> "earlydepthstencil", arguments |-> << >>],
       [ident |-> "unroll", arguments |-> << >>],
       [ident |-> "loop", arguments |-> << >>],
       [ident |-> "branch", arguments |-> << >>] >>

\* A statement of the body, with attributes of its own (Stmnt::attribs).
AttributedStmnt(attribs) ==
    [type |-> "CodeBlockStmnt", attribs |-> attribs,
     codeBlock |-> [stmnts |-> << [type |-> "ExprStmnt", attribs |-> attribs,
                                   expr |-> Assign("x", Lit("0"))] >>]]

AttributeMain(attribs, stmntAttribs, frag) ==
    NewFunctionDecl(0, "main", TRUE,
        IF frag THEN BaseType("Float4") ELSE VoidType,
        IF frag THEN [semantic |-> "Target", index |-> 0] ELSE NoSemantic,
        << >>, attribs,
        << AttributedStmnt(stmntAttribs) >>
            \o (IF frag THEN << Return(Ptr(Var("x"))) >> ELSE << >>))

\* Entry points with every list of attributes, numthreads with every number
\* of arguments, and the same attributes on the statements of the body.
InitAttributes ==
    \E n \in 0..MaxArgs, order \in InjSeqs(5, MaxAttribs), onStmnt \in BOOLEAN, frag \in BOOLEAN :
        /\ n # 3 => \E i \in DOMAIN order : order[i] = 1
        /\ LET attribs == [i \in 1..Len(order) |-> AttributeCatalogue(n)[order[i]]]
               main == AttributeMain(attribs, IF onStmnt THEN attribs ELSE << >>, frag)
           IN  Start([shaderTarget |-> IF frag THEN "FragmentShader" ELSE "ComputeShader",
                      entryPoint |-> "main"],
                     [shaderVersion |-> 430, prefix |-> "", lineMarks |-> FALSE],
                     NewProgram(Rows(<< main >>), Ptr(1), { }, FALSE, ""),
                     [refAnalyzer |-> "ok", converter |-> "ok", reach |-> { },
                      requiredExtensions |-> << >>])

\* ---------------------------------------------------------------- registers
RegisterPrefixes == << "", "b", "t", "s", "u", "c" >>

RegisterName(p, slot) ==
    IF RegisterPrefixes[p] = "" THEN "" ELSE RegisterPrefixes[p] \o to_string(slot)

RegisterGlobal(isBuffer, registerName) ==
    IF isBuffer
    THEN [type |-> "BufferDeclStmnt", row |-> 0, ident |-> "Matrices",
          isReachable |-> FALSE, registerName |-> registerName,
          members |-> << NewVarDeclStmnt(0, BaseType("Float4x4"),
                             << NewVarDecl("wvp", << >>, FALSE) >>) >>]
    ELSE [type |-> "TextureDeclStmnt", row |-> 0, isReachable |-> FALSE,
          textureType |-> "Texture2D",
          textureDecls |-> << [ident |-> "tex", isReachable |-> FALSE,
                               registerName |-> registerName],
                              [ident |-> "shadowMap", isReachable |-> FALSE,
                               registerName |-> ""] >>]

\* One uniform buffer or one texture declaration, bound to every kind of
\* register or to none, reached from the entry point or not.
InitRegisters ==
    \E isBuffer \in BOOLEAN, p \in 1..Len(RegisterPrefixes), slot \in 0..MaxSlot,
       reach \in SUBSET { "Matrices", "tex", "shadowMap" }, lineMarks \in BOOLEAN :
        /\ RegisterPrefixes[p] = "" => slot = 0
        /\ isBuffer => reach \subseteq { "Matrices" }
        /\ ~isBuffer => reach \subseteq { "tex", "shadowMap" }
        /\ Start([shaderTarget |-> "VertexShader", entryPoint |-> "main"],
                 [shaderVersion |-> 420, prefix |-> "", lineMarks |-> lineMarks],
                 NewProgram(Rows(<< RegisterGlobal(isBuffer, RegisterName(p, slot)), VertexMain >>),
                            Ptr(2), { }, FALSE, "gl_Position"),
                 [refAnalyzer |-> "ok", converter |-> "ok", reach |-> reach \cup { "pos" },
                  requiredExtensions |-> << >>])

\* ------------------------------------------------------------- inheritance
BaseIdents == << "Base", "Middle", "Inner", "Deep" >>

\* The member a struct of the chain declares itself.
OwnMember(level) ==
    NewVarDeclStmnt(0, BaseType("Float4"),
        << NewVarDecl(<< "position", "normal", "tangent", "weights" >>[((level - 1) % 4) + 1],
                      << "UserDefined" >>, FALSE) >>)

\* The chain of base structs of the given depth: baseStructRef of the
\* struct at one level points to the struct at the level below.
RECURSIVE BaseChain(_)
BaseChain(depth) ==
    IF depth = 0 THEN Null
    ELSE Ptr([NewStructDecl(BaseIdents[((depth - 1) % 4) + 1], FALSE, FALSE,
                            << OwnMember(depth) >>, "")
              EXCEPT !.baseStructRef = BaseChain(depth - 1)])

DerivedStruct(depth, inp, outp) ==
    [NewStructDecl("Data", inp, outp,
         << NewVarDeclStmnt(0, BaseType("Float4"),
                << NewVarDecl("color", << "UserDefined" >>, FALSE) >>) >>,
         IF inp THEN "inp" ELSE "outp")
     EXCEPT !.baseStructRef = BaseChain(depth)]

\* A struct with a chain of base structs, used as a plain struct or as the
\* input or output of the entry point, in every stage.
InitBases ==
    \E st \in 1..Len(Stages), depth \in 0..MaxBases, inp \in BOOLEAN, outp \in BOOLEAN :
        Start([shaderTarget |-> Stages[st], entryPoint |-> "main"],
              [shaderVersion |-> 330, prefix |-> "", lineMarks |-> FALSE],
              NewProgram(Rows(<< [type |-> "StructDeclStmnt", row |-> 0,
                                  structDecl |-> DerivedStruct(depth, inp, outp)],
                                 StructMain(DerivedStruct(depth, inp, outp)) >>),
                         Ptr(2), { }, FALSE, ""),
              [refAnalyzer |-> "ok", converter |-> "ok",
               reach |-> { "Data", "inp", "position", "normal", "tangent", "weights", "color" },
               requiredExtensions |-> << >>])

\* ----------------------------------------------------------------- scopes
While(condition, bodyStmnt) ==
    [type |-> "WhileLoopStmnt", condition |-> condition, bodyStmnt |-> bodyStmnt]

\* Statements that open scopes or indent their body.
ScopeCatalogue ==
    << While(Var("c"), Ptr([type |-> "ExprStmnt", expr |-> Assign("x", Lit("1.0"))])),
       While(Var("c"),
             Ptr([type |-> "CodeBlockStmnt",
                  codeBlock |-> [stmnts |-> << [type |-> "ExprStmnt",
                                                expr |-> Assign("x", Lit("1.0"))] >>]])),
       While(Var("c"), Ptr(While(Var("d"), Ptr([type |-> "NullStmnt"])))),
       [type |-> "CodeBlockStmnt",
        codeBlock |-> [stmnts |-> << While(Var("c"), Ptr(Return(Ptr(Var("x"))))) >>]],
       Return(Ptr(Var("x"))),
       While(Var("c"), Null) >>

ScopeMain(structDecl, semantic, stmnts) ==
    NewFunctionDecl(0, "main", TRUE, BaseType("Float4"), [semantic |-> semantic, index |-> 0],
        << NewVarDeclStmnt(0, StructType(structDecl), << NewVarDecl("inp", << >>, FALSE) >>) >>,
        << >>, stmnts)

\* An input struct (resolved in a vertex shader, an interface block in a
\* fragment shader), a helper function and an entry point with every body.
InitScopes ==
    \E vertex \in BOOLEAN, body \in InjSeqs(Len(ScopeCatalogue), MaxStmnts),
       order \in InjSeqs(Len(MemberCatalogue), MaxMembers) :
        LET structDecl == NewStructDecl("Data", TRUE, FALSE,
                              [i \in 1..Len(order) |-> MemberCatalogue[order[i]]], "inp")
            globals == Rows(<< [type |-> "StructDeclStmnt", row |-> 0, structDecl |-> structDecl],
                               HelperFunction("Mul"),
                               ScopeMain(structDecl,
                                         IF vertex THEN "VertexPosition" ELSE "Target",
                                         [i \in 1..Len(body) |-> ScopeCatalogue[body[i]]]) >>)
        IN  Start([shaderTarget |-> IF vertex THEN "VertexShader" ELSE "FragmentShader",
                   entryPoint |-> "main"],
                  [shaderVersion |-> 330, prefix |-> "", lineMarks |-> FALSE],
                  NewProgram(globals, Ptr(3), { }, FALSE,
                             IF vertex THEN "gl_Position" ELSE ""),
                  [refAnalyzer |-> "ok", converter |-> "ok",
                   reach |-> { "Data", "inp", "helper", "position", "vertexID", "color",
                               "instanceID" },
                   requiredExtensions |-> << >>])

Init ==
    \/ InitPipeline
    \/ InitSections
    \/ InitStructs
    \/ InitOutputs
    \/ InitInputs
    \/ InitCalls
    \/ InitAttributes
    \/ InitRegisters
    \/ InitBases
    \/ InitScopes

\* The parameters stored and the passes started whatever the entry point is.
BeginWithoutEntryTest ==
    /\ pc = "start"
    /\ gen' = [gen EXCEPT !.shaderTarget = inputDesc.shaderTarget,
                          !.versionOut = outputDesc.shaderVersion,
                          !.localVarPrefix = outputDesc.prefix,
                          !.allowLineMarks = outputDesc.lineMarks]
    /\ pc' = "analyze"
    /\ UNCHANGED << calc, inputDesc, outputDesc, program, collab, nextStmnt, passes, report >>

\* Lines 47-54 and 101-102: store the parameters, test the entry point.
Begin ==
    /\ pc = "start"
    /\ gen' = [gen EXCEPT !.shaderTarget = inputDesc.shaderTarget,
                          !.versionOut = outputDesc.shaderVersion,
                          !.localVarPrefix = outputDesc.prefix,
                          !.allowLineMarks = outputDesc.lineMarks]
    /\ IF ~IsNull(program.entryPointRef)
       THEN pc' = "analyze" /\ report' = report
       ELSE /\ pc' = "failed"
            /\ report' = Ptr([type |-> "Error",
                              msg |-> "entry point \"" \o inputDesc.entryPoint \o "\" not found",
                              ast |-> "none"])
    /\ UNCHANGED << calc, inputDesc, outputDesc, program, collab, nextStmnt, passes >>

\* Analysis followed at once by the emitter: the conversion pass is left out.
AnalyzeWithoutConvert ==
    /\ pc = "analyze"
    /\ program' = MarkReferencesFromEntryPoint(program, collab.reach)
    /\ passes' = Append(passes, "ReferenceAnalyzer")
    /\ pc' = "header"
    /\ UNCHANGED << calc, inputDesc, outputDesc, collab, gen, nextStmnt, report >>

\* Lines 58-62.
Analyze ==
    /\ pc = "analyze"
    /\ IF collab.refAnalyzer = "ok"
       THEN /\ program' = MarkReferencesFromEntryPoint(program, collab.reach)
            /\ passes' = Append(passes, "ReferenceAnalyzer")
            /\ pc' = "convert"
            /\ gen' = gen
       ELSE /\ gen' = Unbind(Throw(Bind(gen, program), collab.refAnalyzer, "reference analysis failed"))
            /\ pc' = "catch"
            /\ UNCHANGED << program, passes >>
    /\ UNCHANGED << calc, inputDesc, outputDesc, collab, nextStmnt, report >>

\* Lines 64-68.
Convert ==
    /\ pc = "convert"
    /\ IF collab.converter = "ok"
       THEN /\ passes' = Append(passes, "GLSLConverter")
            /\ pc' = "header"
            /\ gen' = gen
       ELSE /\ gen' = Unbind(Throw(Bind(gen, program), collab.converter, "conversion failed"))
            /\ pc' = "catch"
            /\ UNCHANGED passes
    /\ UNCHANGED << calc, inputDesc, outputDesc, program, collab, nextStmnt, report >>

\* Lines 70-79.
WriteHeader(g) ==
    Blank(Comment(Comment(
        Comment(SetSec(g, "Header", 0),
                IF inputDesc.entryPoint = ""
                THEN "GLSL " \o TargetToString(g.shaderTarget)
                ELSE "GLSL " \o TargetToString(g.shaderTarget) \o " \""
                             \o inputDesc.entryPoint \o "\""),
        "Generated by XShaderCompiler"), TimePoint))

Header ==
    /\ pc = "header"
    /\ gen' = Unbind(WriteHeader(Bind(gen, program)))
    /\ pc' = "version"
    /\ UNCHANGED << calc, inputDesc, outputDesc, program, collab, nextStmnt, passes, report >>

\* Lines 81-83.
WriteVersion(g) == Blank(Version(SetSec(g, "Version", 0), g.versionOut))

VersionLine ==
    /\ pc = "version"
    /\ gen' = Unbind(WriteVersion(Bind(gen, program)))
    /\ pc' = "program"
    /\ UNCHANGED << calc, inputDesc, outputDesc, program, collab, nextStmnt, passes, report >>

\* Line 86, VisitProgram lines 274-303.
\* The generator and the program as a visit leaves them; an exception
\* leaves the try block.
Visited(g, prog) ==
    /\ gen' = Unbind(g)
    /\ program' = prog
    /\ pc' = IF Failed(g) THEN "catch" ELSE "globals"

VisitProgramResult(g) == Visited(g, g.program)

VisitProgram ==
    /\ pc = "program"
    /\ VisitProgramResult(VisitProgramHead(Bind(gen, program), collab.requiredExtensions))
    /\ nextStmnt' = 1
    /\ UNCHANGED << calc, inputDesc, outputDesc, collab, passes, report >>

VisitGlobalResult(g, ast) ==
    Visited(g, [g.program EXCEPT !.globalStmnts[nextStmnt] = StmntAfterVisit(g, ast)])

\* VisitProgram line 305: one iteration of Visit(ast->globalStmnts).
VisitNextGlobal ==
    /\ pc = "globals"
    /\ nextStmnt <= Len(program.globalStmnts)
    /\ \E semicolon \in BOOLEAN :
         VisitGlobalResult(
             VisitGlobalStmnt(
                 SetSec(Bind(gen, program), program.globalStmnts[nextStmnt].type, nextStmnt),
                 program.globalStmnts[nextStmnt], semicolon),
             program.globalStmnts[nextStmnt])
    /\ nextStmnt' = nextStmnt + 1
    /\ UNCHANGED << calc, inputDesc, outputDesc, collab, passes, report >>

\* Visit(&program) returns: the call ends normally.
Finish ==
    /\ pc = "globals"
    /\ nextStmnt > Len(program.globalStmnts)
    /\ pc' = "done"
    /\ UNCHANGED << calc, inputDesc, outputDesc, program, collab, gen, nextStmnt, passes, report >>

\* A handler that swallows the exception.
CatchAsDone ==
    /\ pc = "catch"
    /\ pc' = "done"
    /\ UNCHANGED << calc, inputDesc, outputDesc, program, collab, gen, nextStmnt, passes, report >>

\* Lines 88-99: the three handlers.
Catch ==
    /\ pc = "catch"
    /\ LET e == Deref(gen.err)
       IN  report' =
             CASE e.kind = "Report"          -> Ptr([type |-> "Error", msg |-> e.msg, ast |-> e.ast])
               [] e.kind = "ASTRuntimeError" -> Ptr([type |-> "Error", msg |-> e.msg, ast |-> e.ast])
               [] OTHER                      -> Ptr([type |-> "Error", msg |-> e.msg, ast |-> "none"])
    /\ pc' = "failed"
    /\ UNCHANGED << calc, inputDesc, outputDesc, program, collab, gen, nextStmnt, passes >>

Next ==
    \/ Begin
    \/ Analyze
    \/ Convert
    \/ Header
    \/ VersionLine
    \/ VisitProgram
    \/ VisitNextGlobal
    \/ Finish
    \/ Catch

Spec == Init /\ [][Next]_vars

\* ========================================================== ASTEnums: DataType
\* enum DataType: Undefined, String, the scalars Bool..Double, the vectors
\* Bool2..Double4 (base x size), the matrices Bool2x2..Double4x4
\* (base x rows x columns).
DataTypeOrder ==
    << "Undefined", "String", "Bool", "Int", "UInt", "Half", "Float", "Double", "Bool2",
       "Bool3", "Bool4", "Int2", "Int3", "Int4", "UInt2", "UInt3", "UInt4", "Half2",
       "Half3", "Half4", "Float2", "Float3", "Float4", "Double2", "Double3", "Double4",
       "Bool2x2", "Bool2x3", "Bool2x4", "Bool3x2", "Bool3x3", "Bool3x4", "Bool4x2",
       "Bool4x3", "Bool4x4", "Int2x2", "Int2x3", "Int2x4", "Int3x2", "Int3x3",
       "Int3x4", "Int4x2", "Int4x3", "Int4x4", "UInt2x2", "UInt2x3", "UInt2x4",
       "UInt3x2", "UInt3x3", "UInt3x4", "UInt4x2", "UInt4x3", "UInt4x4", "Half2x2",
       "Half2x3", "Half2x4", "Half3x2", "Half3x3", "Half3x4", "Half4x2", "Half4x3",
       "Half4x4", "Float2x2", "Float2x3", "Float2x4", "Float3x2", "Float3x3",
       "Float3x4", "Float4x2", "Float4x3", "Float4x4", "Double2x2", "Double2x3",
       "Double2x4", "Double3x2", "Double3x3", "Double3x4", "Double4x2", "Double4x3",
       "Double4x4" >>

\* static_cast<int>(t), and the cast back.
Idx(t) == (CHOOSE i \in 1..Len(DataTypeOrder) : DataTypeOrder[i] = t) - 1

FromIdx(idx) == DataTypeOrder[idx + 1]

IsScalarType(t) == Idx(t) >= Idx("Bool") /\ Idx(t) <= Idx("Double")

IsVectorType(t) == Idx(t) >= Idx("Bool2") /\ Idx(t) <= Idx("Double4")

VectorTypeDim(t) ==
    CASE t \in { "Bool", "Int", "UInt", "Half", "Float", "Double" } -> 1
      [] t \in { "Bool2", "Int2", "UInt2", "Half2", "Float2", "Double2" } -> 2
      [] t \in { "Bool3", "Int3", "UInt3", "Half3", "Float3", "Double3" } -> 3
      [] t \in { "Bool4", "Int4", "UInt4", "Half4", "Float4", "Double4" } -> 4
      [] OTHER -> 0

\* The macro FIND_BASETYPE: t is a vector or a matrix of the base type.
FIND_BASETYPE(t, TYPENAME) ==
    \/ Idx(t) >= Idx(TYPENAME \o "2") /\ Idx(t) <= Idx(TYPENAME \o "4")
    \/ Idx(t) >= Idx(TYPENAME \o "2x2") /\ Idx(t) <= Idx(TYPENAME \o "4x4")

BaseDataType(t) ==
    IF FIND_BASETYPE(t, "Bool") THEN "Bool"
    ELSE IF FIND_BASETYPE(t, "Int") THEN "Int"
    ELSE IF FIND_BASETYPE(t, "UInt") THEN "UInt"
    ELSE IF FIND_BASETYPE(t, "Half") THEN "Half"
    ELSE IF FIND_BASETYPE(t, "Float") THEN "Float"
    ELSE IF FIND_BASETYPE(t, "Double") THEN "Double"
    ELSE t

\* The index arithmetic with four sizes per base type.
VectorDataTypeOfFourSizes(baseDataType, vectorSize) ==
    IF IsScalarType(baseDataType)
    THEN IF vectorSize >= 2 /\ vectorSize <= 4
         THEN FromIdx(Idx("Bool2") + (Idx(baseDataType) - Idx("Bool")) * 4 + (vectorSize - 2))
         ELSE IF vectorSize = 1 THEN baseDataType ELSE "Undefined"
    ELSE "Undefined"

VectorDataType(baseDataType, vectorSize) ==
    IF IsScalarType(baseDataType)
    THEN IF vectorSize >= 2 /\ vectorSize <= 4
         THEN FromIdx(Idx("Bool2") + (Idx(baseDataType) - Idx("Bool")) * 3 + (vectorSize - 2))
         ELSE IF vectorSize = 1 THEN baseDataType ELSE "Undefined"
    ELSE "Undefined"

\* ------------------------------------------- the functions applied on their own
\* calc: [t : a data type taken apart and put together again,
\*        base, dim, joined : BaseDataType(t), VectorTypeDim(t) and
\*                            VectorDataType of the two (ptr, null until called),
\*        b, n : arguments of VectorDataType, made : its result (ptr)]
BaseArguments == << "Undefined", "String", "Bool", "Int", "UInt", "Half", "Float", "Double",
                    "Float2", "Int3x3" >>

Idle ==
    /\ inputDesc = Null
    /\ outputDesc = Null
    /\ program = Null
    /\ collab = Null
    /\ gen = GenInit
    /\ pc = "idle"
    /\ nextStmnt = 0
    /\ passes = << >>
    /\ report = Null

InitEnums ==
    /\ Idle
    /\ \E t \in 1..Len(DataTypeOrder), b \in 1..Len(BaseArguments), n \in 0..MaxDim :
         calc = [t |-> DataTypeOrder[t], base |-> Null, dim |-> Null, joined |-> Null,
                 b |-> BaseArguments[b], n |-> n, made |-> Null]

Called(next) ==
    /\ calc' = next
    /\ UNCHANGED << inputDesc, outputDesc, program, collab, gen, pc, nextStmnt, passes, report >>

CallBaseDataType ==
    /\ IsNull(calc.base)
    /\ Called([calc EXCEPT !.base = Ptr(BaseDataType(calc.t))])

CallVectorTypeDim ==
    /\ IsNull(calc.dim)
    /\ Called([calc EXCEPT !.dim = Ptr(VectorTypeDim(calc.t))])

\* VectorDataType(BaseDataType(t), VectorTypeDim(t))
JoinVectorDataType ==
    /\ ~IsNull(calc.base) /\ ~IsNull(calc.dim) /\ IsNull(calc.joined)
    /\ Called([calc EXCEPT !.joined = Ptr(VectorDataType(Deref(calc.base), Deref(calc.dim)))])

\* VectorDataType(b, n)
CallVectorDataType ==
    /\ IsNull(calc.made)
    /\ Called([calc EXCEPT !.made = Ptr(VectorDataType(calc.b, calc.n))])

NextEnums ==
    \/ CallBaseDataType
    \/ CallVectorTypeDim
    \/ JoinVectorDataType
    \/ CallVectorDataType

SpecEnums == InitEnums /\ [][NextEnums]_vars


\* ------------------------------------------------ ASTEnums: matrix shapes
ScalarTypes == { "Bool", "Int", "UInt", "Half", "Float", "Double" }

\* The case labels of one dimension: every base type with the suffix.
Shaped(suffix) == { b \o suffix : b \in ScalarTypes }

IsMatrixType(t) == Idx(t) >= Idx("Bool2x2") /\ Idx(t) <= Idx("Double4x4")

\* std::pair<int, int> as a tuple << first, second >>.
MatrixTypeDim(t) ==
    CASE t \in ScalarTypes    -> << 1, 1 >>
      [] t \in Shaped("2")    -> << 2, 1 >>
      [] t \in Shaped("3")    -> << 3, 1 >>
      [] t \in Shaped("4")    -> << 4, 1 >>
      [] t \in Shaped("2x2")  -> << 2, 2 >>
      [] t \in Shaped("2x3")  -> << 2, 3 >>
      [] t \in Shaped("2x4")  -> << 2, 4 >>
      [] t \in Shaped("3x2")  -> << 3, 2 >>
      [] t \in Shaped("3x3")  -> << 3, 3 >>
      [] t \in Shaped("3x4")  -> << 3, 4 >>
      [] t \in Shaped("4x2")  -> << 4, 2 >>
      [] t \in Shaped("4x3")  -> << 4, 3 >>
      [] t \in Shaped("4x4")  -> << 4, 4 >>
      [] OTHER                -> << 0, 0 >>

\* The index arithmetic with the columns counted before the rows.
MatrixDataTypeColumnsFirst(baseDataType, rows, columns) ==
    IF IsScalarType(baseDataType)
    THEN IF rows = 1 /\ columns = 1 THEN baseDataType
         ELSE IF rows = 1 THEN VectorDataType(baseDataType, columns)
         ELSE IF columns = 1 THEN VectorDataType(baseDataType, rows)
         ELSE IF rows >= 2 /\ rows <= 4 /\ columns >= 2 /\ columns <= 4
         THEN FromIdx(Idx("Bool2x2") + (Idx(baseDataType) - Idx("Bool")) * 9
                          + (columns - 2) * 3 + (rows - 2))
         ELSE "Undefined"
    ELSE "Undefined"

MatrixDataType(baseDataType, rows, columns) ==
    IF IsScalarType(baseDataType)
    THEN IF rows = 1 /\ columns = 1 THEN baseDataType
         ELSE IF rows = 1 THEN VectorDataType(baseDataType, columns)
         ELSE IF columns = 1 THEN VectorDataType(baseDataType, rows)
         ELSE IF rows >= 2 /\ rows <= 4 /\ columns >= 2 /\ columns <= 4
         THEN FromIdx(Idx("Bool2x2") + (Idx(baseDataType) - Idx("Bool")) * 9
                          + (rows - 2) * 3 + (columns - 2))
         ELSE "Undefined"
    ELSE "Undefined"

\* calc: [b, rows, columns : arguments of MatrixDataType, made : its result,
\*        base, dim : BaseDataType and MatrixTypeDim of the result
\*        (ptr, null until called)]
InitMatrix ==
    /\ Idle
    /\ \E b \in 1..Len(BaseArguments), rows \in 0..MaxDim, columns \in 0..MaxDim :
         calc = [b |-> BaseArguments[b], rows |-> rows, columns |-> columns,
                 made |-> Null, base |-> Null, dim |-> Null]

\* MatrixDataType(b, rows, columns)
CallMatrixDataType ==
    /\ IsNull(calc.made)
    /\ Called([calc EXCEPT !.made = Ptr(MatrixDataType(calc.b, calc.rows, calc.columns))])

\* BaseDataType(MatrixDataType(b, rows, columns))
CallBaseOfMatrix ==
    /\ ~IsNull(calc.made) /\ IsNull(calc.base)
    /\ Called([calc EXCEPT !.base = Ptr(BaseDataType(Deref(calc.made)))])

\* MatrixTypeDim(MatrixDataType(b, rows, columns))
CallMatrixTypeDim ==
    /\ ~IsNull(calc.made) /\ IsNull(calc.dim)
    /\ Called([calc EXCEPT !.dim = Ptr(MatrixTypeDim(Deref(calc.made)))])

NextMatrix ==
    \/ CallMatrixDataType
    \/ CallBaseOfMatrix
    \/ CallMatrixTypeDim

SpecMatrix == InitMatrix /\ [][NextMatrix]_vars


\* ------------------------------------------------- ASTEnums: subscripts
MaxSwizzle == 5     \* characters of a vector subscript
MaxChain   == 5     \* entries of a matrix subscript

\* Characters and their codes (ASCII); a string read at its size gives the
\* terminating character, whose code is 0.
Digits == "0123456789"
UpperCase == "ABCDEFGHIJKLMNOPQRSTUVWXYZ"
LowerCase == "abcdefghijklmnopqrstuvwxyz"

Find(str, chr) ==
    IF \E i \in 1..Len(str) : SubSeq(str, i, i) = chr
    THEN CHOOSE i \in 1..Len(str) : SubSeq(str, i, i) = chr
    ELSE 0

CharCode(chr) ==
    IF chr = "" THEN 0
    ELSE IF Find(Digits, chr) # 0 THEN 47 + Find(Digits, chr)
    ELSE IF Find(UpperCase, chr) # 0 THEN 64 + Find(UpperCase, chr)
    ELSE IF chr = "_" THEN 95
    ELSE 96 + Find(LowerCase, chr)

\* s[i], i counted from 0.
At(s, i) == IF i < Len(s) THEN SubSeq(s, i + 1, i + 1) ELSE ""

\* A returned value, or the std::invalid_argument raised by InvalidArg.
Returned(t) == [thrown |-> FALSE, type |-> t]
InvalidArg(what) == [thrown |-> TRUE, what |-> what]

\* The lambda IsValidSubscript: compareSubscript.resize(vectorSize), then
\* every character of the subscript must be found in it.
IsValidSubscript(subscript, compareSubscript, vectorSize) ==
    \A i \in 1..Len(subscript) :
        Find(SubSeq(compareSubscript, 1, vectorSize), SubSeq(subscript, i, i)) # 0

\* The validation with every character of the compare strings allowed.
SubscriptDataTypeVectorAnyComponent(dataType, subscript, vectorSize) ==
    IF Len(subscript) < 1 \/ Len(subscript) > 4
    THEN InvalidArg("VectorSubscriptCantHaveNComps")
    ELSE IF vectorSize < 1 \/ vectorSize > 4
    THEN InvalidArg("InvalidVectorDimension")
    ELSE IF ~(\/ IsValidSubscript(subscript, "xyzw", 4)
              \/ IsValidSubscript(subscript, "rgba", 4))
    THEN InvalidArg("InvalidVectorSubscript")
    ELSE Returned(VectorDataType(BaseDataType(dataType), Len(subscript)))

SubscriptDataTypeVector(dataType, subscript, vectorSize) ==
    IF Len(subscript) < 1 \/ Len(subscript) > 4
    THEN InvalidArg("VectorSubscriptCantHaveNComps")
    ELSE IF vectorSize < 1 \/ vectorSize > 4
    THEN InvalidArg("InvalidVectorDimension")
    ELSE IF ~(\/ IsValidSubscript(subscript, "xyzw", vectorSize)
              \/ IsValidSubscript(subscript, "rgba", vectorSize))
    THEN InvalidArg("InvalidVectorSubscript")
    ELSE Returned(VectorDataType(BaseDataType(dataType), Len(subscript)))

\* The lambda ParseNextSubscript from the index i (counted from 0):
\* [thrown, what] or [thrown |-> FALSE, i |-> the index after the entry].
IsZeroBased(s, i) == At(s, i + 1) = "m"

\* The index of the first of the two digits, and char zeroBase.
DigitsAt(s, i) == IF IsZeroBased(s, i) THEN i + 2 ELSE i + 1
zeroBase(s, i) == IF IsZeroBased(s, i) THEN 0 ELSE 1

IsBadDigit(s, i, j) ==
    \/ CharCode(At(s, DigitsAt(s, i) + j)) < CharCode("0") + zeroBase(s, i)
    \/ CharCode(At(s, DigitsAt(s, i) + j)) > CharCode("3") + zeroBase(s, i)

ParseNextSubscript(s, i) ==
    IF i + 3 > Len(s) THEN InvalidArg("IncompleteMatrixSubscript")
    ELSE IF At(s, i) # "_" THEN InvalidArg("InvalidCharInMatrixSubscript")
    ELSE IF IsZeroBased(s, i) /\ DigitsAt(s, i) + 2 > Len(s)
    THEN InvalidArg("IncompleteMatrixSubscript")
    ELSE IF IsBadDigit(s, i, 0) \/ IsBadDigit(s, i, 1)
    THEN InvalidArg("InvalidCharInMatrixSubscript")
    ELSE [thrown |-> FALSE, i |-> DigitsAt(s, i) + 2]

\* The loop for (i = 0; i < subscript.size(); ++vectorSize).
RECURSIVE ParseSubscripts(_, _, _, _)
ParseSubscripts(dataType, subscript, i, vectorSize) ==
    IF ~(i < Len(subscript))
    THEN Returned(VectorDataType(BaseDataType(dataType), vectorSize))
    ELSE IF ParseNextSubscript(subscript, i).thrown
    THEN ParseNextSubscript(subscript, i)
    ELSE ParseSubscripts(dataType, subscript, ParseNextSubscript(subscript, i).i,
                         vectorSize + 1)

SubscriptDataTypeMatrix(dataType, subscript, rows, cols) ==
    IF rows < 1 \/ rows > 4 \/ cols < 1 \/ cols > 4
    THEN InvalidArg("InvalidMatrixDimension")
    ELSE ParseSubscripts(dataType, subscript, 0, 0)

SubscriptDataType(dataType, subscript) ==
    IF MatrixTypeDim(dataType)[2] = 1
    THEN SubscriptDataTypeVector(dataType, subscript, MatrixTypeDim(dataType)[1])
    ELSE SubscriptDataTypeMatrix(dataType, subscript,
                                 MatrixTypeDim(dataType)[1], MatrixTypeDim(dataType)[2])

\* Subscripts handed in: every string of up to MaxSwizzle characters over
\* SwizzleChars on a scalar or vector, every chain of up to MaxChain entries
\* of MatrixEntries on a matrix, and a few of each on every data type.
SwizzleChars == << "x", "w", "r", "g", "q" >>
MatrixEntries == << "_m00", "_11", "_m33", "_10", "_1" >>
SwizzledTypes == << "Float", "Int2", "Half3", "Bool4" >>
ChainedTypes == << "Float2x2", "Int4x4", "Undefined" >>
AnyTypeSubscripts == << "", "x", "xyzw", "rgba", "xr", "_m00", "_11_m00" >>

RECURSIVE Strings(_, _)
Strings(parts, n) ==
    IF n = 0 THEN { "" }
    ELSE Strings(parts, n - 1) \cup
         { s \o parts[k] : s \in Strings(parts, n - 1), k \in 1..Len(parts) }

\* calc: [t, subscript : arguments of SubscriptDataType, result : what the
\*        call returned or raised (ptr, null until called)]
InitSubscript ==
    /\ Idle
    /\ \/ \E t \in 1..Len(SwizzledTypes), s \in Strings(SwizzleChars, MaxSwizzle) :
            calc = [t |-> SwizzledTypes[t], subscript |-> s, result |-> Null]
       \/ \E t \in 1..Len(ChainedTypes), s \in Strings(MatrixEntries, MaxChain) :
            calc = [t |-> ChainedTypes[t], subscript |-> s, result |-> Null]
       \/ \E t \in 1..Len(DataTypeOrder), s \in 1..Len(AnyTypeSubscripts) :
            calc = [t |-> DataTypeOrder[t], subscript |-> AnyTypeSubscripts[s],
                    result |-> Null]

\* SubscriptDataType(t, subscript)
CallSubscriptDataType ==
    /\ IsNull(calc.result)
    /\ Called([calc EXCEPT !.result = Ptr(SubscriptDataType(calc.t, calc.subscript))])

NextSubscript == CallSubscriptDataType

SpecSubscript == InitSubscript /\ [][NextSubscript]_vars


\* --------------------------------------------- ASTEnums: double to float
IsDoubleRealType(t) ==
    \/ t = "Double"
    \/ Idx(t) >= Idx("Double2") /\ Idx(t) <= Idx("Double4")
    \/ Idx(t) >= Idx("Double2x2") /\ Idx(t) <= Idx("Double4x4")

\* The conversion without its matrix branch.
DoubleToFloatDataTypeOfVectors(dataType) ==
    IF dataType = "Double" THEN "Float"
    ELSE IF Idx(dataType) >= Idx("Double2") /\ Idx(dataType) <= Idx("Double4")
    THEN FromIdx(Idx(dataType) - Idx("Double2") + Idx("Float2"))
    ELSE dataType

DoubleToFloatDataType(dataType) ==
    IF dataType = "Double" THEN "Float"
    ELSE IF Idx(dataType) >= Idx("Double2") /\ Idx(dataType) <= Idx("Double4")
    THEN FromIdx(Idx(dataType) - Idx("Double2") + Idx("Float2"))
    ELSE IF Idx(dataType) >= Idx("Double2x2") /\ Idx(dataType) <= Idx("Double4x4")
    THEN FromIdx(Idx(dataType) - Idx("Double2x2") + Idx("Float2x2"))
    ELSE dataType

\* calc: [t : a data type, narrow : DoubleToFloatDataType(t),
\*        again : DoubleToFloatDataType(narrow) (ptr, null until called)]
InitNarrow ==
    /\ Idle
    /\ \E t \in 1..Len(DataTypeOrder) :
         calc = [t |-> DataTypeOrder[t], narrow |-> Null, again |-> Null]

\* DoubleToFloatDataType(t)
CallDoubleToFloatDataType ==
    /\ IsNull(calc.narrow)
    /\ Called([calc EXCEPT !.narrow = Ptr(DoubleToFloatDataType(calc.t))])

\* DoubleToFloatDataType(DoubleToFloatDataType(t))
CallDoubleToFloatDataTypeAgain ==
    /\ ~IsNull(calc.narrow) /\ IsNull(calc.again)
    /\ Called([calc EXCEPT !.again = Ptr(DoubleToFloatDataType(Deref(calc.narrow)))])

NextNarrow ==
    \/ CallDoubleToFloatDataType
    \/ CallDoubleToFloatDataTypeAgain

SpecNarrow == InitNarrow /\ [][NextNarrow]_vars


\* ------------------------------------------ ASTEnums: class IndexedSemantic
MaxName     == 3    \* characters of a user defined semantic handed in
MaxSemIndex == 2    \* largest index handed to a constructor

\* std::string::npos
npos == -1

\* s.find_last_not_of("0123456789"), positions counted from 0.
find_last_not_of(s, chars) ==
    IF \E i \in 1..Len(s) : Find(chars, SubSeq(s, i, i)) = 0
    THEN (CHOOSE i \in 1..Len(s) :
              /\ Find(chars, SubSeq(s, i, i)) = 0
              /\ \A k \in (i + 1)..Len(s) : Find(chars, SubSeq(s, k, k)) # 0) - 1
    ELSE npos

\* s.substr(pos, n): at most n characters from pos, up to the end.
substr(s, pos, n) ==
    SubSeq(s, pos + 1, IF pos + n < Len(s) THEN pos + n ELSE Len(s))

\* std::atoi: the value of the leading decimal digits.
RECURSIVE atoi_from(_, _, _)
atoi_from(s, i, value) ==
    IF i < Len(s) /\ Find(Digits, At(s, i)) # 0
    THEN atoi_from(s, i + 1, value * 10 + (Find(Digits, At(s, i)) - 1))
    ELSE value

atoi(s) == atoi_from(s, 0, 0)

\* ::toupper on one character, and std::transform over the string.
toupper(chr) ==
    IF Find(LowerCase, chr) # 0
    THEN SubSeq(UpperCase, Find(LowerCase, chr), Find(LowerCase, chr))
    ELSE chr

RECURSIVE transform_toupper(_)
transform_toupper(s) ==
    IF Len(s) = 0 THEN ""
    ELSE toupper(SubSeq(s, 1, 1)) \o transform_toupper(SubSeq(s, 2, Len(s)))

\* std::to_string of an int of any size the model reaches.
RECURSIVE to_string_int(_)
to_string_int(n) ==
    IF n < 10 THEN DecimalDigits[n + 1]
    ELSE to_string_int(n \div 10) \o DecimalDigits[(n % 10) + 1]

\* std::string operator <: the first differing character decides, a
\* proper prefix is less.
RECURSIVE StringLess(_, _)
StringLess(a, b) ==
    IF Len(b) = 0 THEN FALSE
    ELSE IF Len(a) = 0 THEN TRUE
    ELSE IF CharCode(SubSeq(a, 1, 1)) # CharCode(SubSeq(b, 1, 1))
    THEN CharCode(SubSeq(a, 1, 1)) < CharCode(SubSeq(b, 1, 1))
    ELSE StringLess(SubSeq(a, 2, Len(a)), SubSeq(b, 2, Len(b)))

\* The report strings R_Undefined and R_UserDefined.
R_Undefined == "<undefined>"
R_UserDefined == "<user-defined>"

SemanticToString(t) ==
    CASE t = "Undefined"   -> R_Undefined
      [] t = "UserDefined" -> R_UserDefined
      [] OTHER             -> "SV_" \o t

\* IndexedSemantic: [semantic_, index_, userDefined_]; the members start
\* as Undefined, 0 and the empty string.
IndexedSemanticOf(semantic, index) ==
    [semantic_ |-> semantic, index_ |-> index, userDefined_ |-> ""]

\* The constructor from a string with the index left at 0.
IndexedSemanticWithoutIndex(userDefined) ==
    [semantic_ |-> "UserDefined", index_ |-> 0, userDefined_ |-> userDefined]

IndexedSemanticFromString(userDefined) ==
    IF /\ find_last_not_of(userDefined, Digits) # npos
       /\ find_last_not_of(userDefined, Digits) + 1 < Len(userDefined)
    THEN [semantic_ |-> "UserDefined",
          index_ |-> atoi(substr(userDefined, find_last_not_of(userDefined, Digits) + 1,
                                 Len(userDefined))),
          userDefined_ |-> substr(userDefined, 0, find_last_not_of(userDefined, Digits) + 1)]
    ELSE [semantic_ |-> "UserDefined", index_ |-> 0, userDefined_ |-> userDefined]

IndexedSemanticWithIndex(rhs, index) ==
    [semantic_ |-> rhs.semantic_, index_ |-> index, userDefined_ |-> rhs.userDefined_]

\* operator < with the user defined text left out.
IndexedSemanticLessByIndex(lhs, rhs) ==
    IF SemanticIdx(lhs.semantic_) > SemanticIdx(rhs.semantic_) THEN FALSE
    ELSE IF SemanticIdx(lhs.semantic_) < SemanticIdx(rhs.semantic_) THEN TRUE
    ELSE lhs.index_ < rhs.index_

IndexedSemanticLess(lhs, rhs) ==
    IF SemanticIdx(lhs.semantic_) > SemanticIdx(rhs.semantic_) THEN FALSE
    ELSE IF SemanticIdx(lhs.semantic_) < SemanticIdx(rhs.semantic_) THEN TRUE
    ELSE IF lhs.index_ > rhs.index_ THEN FALSE
    ELSE IF lhs.index_ < rhs.index_ THEN TRUE
    ELSE StringLess(lhs.userDefined_, rhs.userDefined_)

IndexedSemanticToString(a) ==
    (IF a.semantic_ = "UserDefined" THEN transform_toupper(a.userDefined_)
     ELSE SemanticToString(a.semantic_)) \o to_string_int(a.index_)

\* User defined semantics handed in: every string of up to MaxName
\* characters over NameChars, and two longer ones.
NameChars == << "T", "x", "0", "7" >>
Names == Strings(NameChars, MaxName) \cup { "TEXCOORD3", "COLOR10" }

\* calc: [name : a user defined semantic, named : the IndexedSemantic
\*        constructed from it, kind, index : arguments of the other
\*        constructors, made : the IndexedSemantic of that kind and index
\*        (of named and the index when the kind is UserDefined),
\*        text : made.ToString(), parsed : the IndexedSemantic constructed
\*        from text (ptr, null until called)]
InitSemantics ==
    /\ Idle
    /\ \E name \in Names, kind \in 1..Len(SemanticOrder), index \in 0..MaxSemIndex :
         /\ SemanticOrder[kind] # "UserDefined" => name = ""
         /\ calc = [name |-> name, kind |-> SemanticOrder[kind], index |-> index,
                    named |-> Null, made |-> Null, text |-> Null, parsed |-> Null]

\* IndexedSemantic(name)
ConstructFromString ==
    /\ IsNull(calc.named)
    /\ Called([calc EXCEPT !.named = Ptr(IndexedSemanticFromString(calc.name))])

\* IndexedSemantic(kind, index), or IndexedSemantic(named, index)
ConstructIndexed ==
    /\ IsNull(calc.made)
    /\ IF calc.kind = "UserDefined"
       THEN /\ ~IsNull(calc.named)
            /\ Called([calc EXCEPT !.made =
                          Ptr(IndexedSemanticWithIndex(Deref(calc.named), calc.index))])
       ELSE Called([calc EXCEPT !.made = Ptr(IndexedSemanticOf(calc.kind, calc.index))])

\* made.ToString()
CallToString ==
    /\ ~IsNull(calc.made) /\ IsNull(calc.text)
    /\ Called([calc EXCEPT !.text = Ptr(IndexedSemanticToString(Deref(calc.made)))])

\* IndexedSemantic(made.ToString())
ConstructFromText ==
    /\ ~IsNull(calc.text) /\ IsNull(calc.parsed)
    /\ Called([calc EXCEPT !.parsed = Ptr(IndexedSemanticFromString(Deref(calc.text)))])

NextSemantics ==
    \/ ConstructFromString
    \/ ConstructIndexed
    \/ CallToString
    \/ ConstructFromText

SpecSemantics == InitSemantics /\ [][NextSemantics]_vars


\* Indexed semantics handed to operator <: the system values of
\* OrderedKinds with every index, and the user defined semantics of
\* OrderedNames with every index.
OrderedKinds == << "Depth", "Target" >>
OrderedNames == << "", "A", "AB" >>

OrderedSemantics ==
    { IndexedSemanticOf(OrderedKinds[k], i) : k \in 1..Len(OrderedKinds), i \in 0..MaxSemIndex }
    \cup { IndexedSemanticWithIndex(IndexedSemanticFromString(OrderedNames[n]), i) :
               n \in 1..Len(OrderedNames), i \in 0..MaxSemIndex }

\* calc: [a, b, c : three indexed semantics, ab, ba, bc, ac, aa : the
\*        results of a < b, b < a, b < c, a < c, a < a (ptr, null until
\*        compared; compared in this order)]
InitOrder ==
    /\ Idle
    /\ \E a \in OrderedSemantics, b \in OrderedSemantics, c \in OrderedSemantics :
         calc = [a |-> a, b |-> b, c |-> c,
                 ab |-> Null, ba |-> Null, bc |-> Null, ac |-> Null, aa |-> Null]

CompareAB ==
    /\ IsNull(calc.ab)
    /\ Called([calc EXCEPT !.ab = Ptr(IndexedSemanticLess(calc.a, calc.b))])

CompareBA ==
    /\ ~IsNull(calc.ab) /\ IsNull(calc.ba)
    /\ Called([calc EXCEPT !.ba = Ptr(IndexedSemanticLess(calc.b, calc.a))])

CompareBC ==
    /\ ~IsNull(calc.ba) /\ IsNull(calc.bc)
    /\ Called([calc EXCEPT !.bc = Ptr(IndexedSemanticLess(calc.b, calc.c))])

CompareAC ==
    /\ ~IsNull(calc.bc) /\ IsNull(calc.ac)
    /\ Called([calc EXCEPT !.ac = Ptr(IndexedSemanticLess(calc.a, calc.c))])

CompareAA ==
    /\ ~IsNull(calc.ac) /\ IsNull(calc.aa)
    /\ Called([calc EXCEPT !.aa = Ptr(IndexedSemanticLess(calc.a, calc.a))])

NextOrder ==
    \/ CompareAB
    \/ CompareBA
    \/ CompareBC
    \/ CompareAC
    \/ CompareAA

SpecOrder == InitOrder /\ [][NextOrder]_vars

\* ============================================================== properties
StartsWith(s, p) == Len(s) >= Len(p) /\ SubSeq(s, 1, Len(p)) = p

EndsWith(s, p) == Len(s) >= Len(p) /\ SubSeq(s, Len(s) - Len(p) + 1, Len(s)) = p

Contains(s, p) == \E k \in 1..(Len(s) - Len(p) + 1) : SubSeq(s, k, k + Len(p) - 1) = p

Globals == 1..Len(program.globalStmnts)

Global(i) == program.globalStmnts[i]

\* The lines written while global statement i was visited.
NodeLines(i) == SelectSeq(gen.out, LAMBDA l : l.node = i)

\* Global statement i has been visited / visited without an error.
Attempted(i) == nextStmnt > i

Completed(i) == nextStmnt > i /\ (IsNull(gen.err) \/ nextStmnt - 1 > i)

HasEntryPoint == ~IsNull(program.entryPointRef)

EntryIndex == Deref(program.entryPointRef)

AllPasses == << "ReferenceAnalyzer", "GLSLConverter" >>

IsFrontMatter(l) == l.sec \in { "Header", "Version" }

\* C1: the passes run one after another. Reference analysis has completed
\* when conversion is reached, both passes have completed before any text
\* exists, and the header comment and the #version line precede every line
\* written by the visit of the program.
C1_PassesThenHeaderThenProgram ==
    /\ passes \in { << >>, << "ReferenceAnalyzer" >>, AllPasses }
    /\ (pc = "convert" => passes = << "ReferenceAnalyzer" >>)
    /\ ((Len(gen.out) > 0 \/ ~IsNull(gen.cur)) => passes = AllPasses)
    /\ (Len(gen.out) > 0 => StartsWith(gen.out[1].text, "// GLSL "))
    /\ \A i \in 1..Len(gen.out) :
         ~IsFrontMatter(gen.out[i]) =>
            /\ \E h, v \in 1..(i - 1) :
                 /\ h < v
                 /\ gen.out[h].sec = "Header"
                 /\ gen.out[v].sec = "Version"
                 /\ StartsWith(gen.out[v].text, "#version ")
            /\ \A j \in i..Len(gen.out) : ~IsFrontMatter(gen.out[j])

\* A call that ran to its end and wrote text for the program after the
\* header and the version.
C1_Witness ==
    /\ pc = "done"
    /\ passes = AllPasses
    /\ \E i \in 1..Len(gen.out) : gen.out[i].sec = "FunctionDecl"

\* C2: an error aborts the call at that point. The step after the error is
\* the handler, which writes no text, runs no pass and no visit, and leaves
\* an error report carrying the message of the exception (and the AST node
\* of a Report or an ASTRuntimeError); nothing runs after the handler, and
\* a report exists only once the call has failed.
C2_ErrorAbortsWithReport ==
    [][ /\ pc # "failed"
        /\ (pc = "catch" =>
              /\ pc' = "failed"
              /\ gen'.out = gen.out
              /\ passes' = passes
              /\ nextStmnt' = nextStmnt
              /\ ~IsNull(report')
              /\ Deref(report').type = "Error"
              /\ Deref(report').msg = Deref(gen.err).msg
              /\ (Deref(gen.err).kind \in { "Report", "ASTRuntimeError" }
                    => Deref(report').ast = Deref(gen.err).ast))
        /\ (Failed(gen') => pc' \in { "catch", "failed" })
        /\ (pc' = "catch" => Failed(gen') /\ ~Failed(gen))
        /\ (~IsNull(report') => pc' = "failed")
      ]_vars

\* The emitter failed after text had been written, and the call has ended
\* with the report.
C2_Witness ==
    /\ pc = "failed"
    /\ ~IsNull(gen.err)
    /\ ~IsNull(report)
    /\ Len(gen.out) > 0
    /\ nextStmnt <= Len(program.globalStmnts)

FixedRank(l) ==
    CASE l.sec = "Header"           -> 1
      [] l.sec = "Version"          -> 2
      [] l.sec = "Extension"        -> 3
      [] l.sec = "Layout"           -> 4
      [] l.sec = "Intrinsic"        -> 5
      [] l.sec = "BufferDeclStmnt"  -> 6
      [] l.sec = "TextureDeclStmnt" -> 7
      [] l.sec = "StructDeclStmnt"  -> 8
      [] OTHER                      -> 9

\* C3 as stated: the sections come in one fixed order whatever the order of
\* the global declarations: header, version, extensions, layout lines,
\* intrinsic helpers, uniform buffers, textures, structs, functions. (The
\* declaration of the fragment output, which the list does not name, is
\* left out of the comparison.)
C3_FixedSectionOrder ==
    \A i, j \in 1..Len(gen.out) :
        (i < j /\ gen.out[i].sec # "Output" /\ gen.out[j].sec # "Output")
            => FixedRank(gen.out[i]) <= FixedRank(gen.out[j])

SourceRank(l) ==
    CASE l.sec = "Header"    -> 1
      [] l.sec = "Version"   -> 2
      [] l.sec = "Extension" -> 3
      [] l.sec = "Layout"    -> 4
      [] l.sec = "Intrinsic" -> 5
      [] l.sec = "Output"    -> 6
      [] OTHER               -> 7

\* C3: header, version, extensions, layout lines, intrinsic helpers and the
\* fragment output declaration come in this order; the global declarations
\* follow them in the order of the source, whatever their kinds.
C3_SectionsThenSourceOrder ==
    \A i, j \in 1..Len(gen.out) :
        i < j =>
            /\ SourceRank(gen.out[i]) <= SourceRank(gen.out[j])
            /\ gen.out[i].node <= gen.out[j].node
            /\ (gen.out[i].node > 0 => gen.out[i].sec = Global(gen.out[i].node).type)

\* A fragment shader with an extension, a layout line, intrinsic helpers,
\* an output declaration, and a struct declared before a uniform buffer.
C3_Witness ==
    /\ pc = "done"
    /\ \A s \in { "Extension", "Layout", "Intrinsic", "Output", "FunctionDecl" } :
         \E k \in 1..Len(gen.out) : gen.out[k].sec = s
    /\ \E i, j \in 1..Len(gen.out) :
         i < j /\ gen.out[i].sec = "StructDeclStmnt" /\ gen.out[j].sec = "BufferDeclStmnt"

\* C4: a function not flagged isReachable leaves no line at all, a function
\* flagged isReachable is written, and the entry point is written with the
\* header "void main()".
C4_OnlyReachableFunctions ==
    /\ \A i \in Globals :
         (Global(i).type = "FunctionDecl" /\ Completed(i)) =>
            IF ~Global(i).isReachable
            THEN \A k \in 1..Len(gen.out) : gen.out[k].node # i
            ELSE \E k \in 1..Len(gen.out) :
                    /\ gen.out[k].node = i
                    /\ gen.out[k].indent = 0
                    /\ IF Global(i).isEntryPoint
                       THEN gen.out[k].text = "void main()"
                       ELSE Contains(gen.out[k].text, " " \o Global(i).ident \o "(")
    /\ (pc = "done" =>
          \E k \in 1..Len(gen.out) :
              gen.out[k].node = EntryIndex /\ gen.out[k].text = "void main()")

\* A finished call whose program holds a function that is not reachable and
\* one that is, besides the entry point.
C4_Witness ==
    /\ pc = "done"
    /\ \E i \in Globals :
         /\ Global(i).type = "FunctionDecl"
         /\ ~Global(i).isEntryPoint
         /\ ~Global(i).isReachable
    /\ \E k \in 1..Len(gen.out) : gen.out[k].text = "void main()"

\* The stage cannot take an interface block of a direction the struct has.
StageCannotTakeBlock(sd) ==
    \/ (inputDesc.shaderTarget = "VertexShader" /\ sd.isShaderInput)
    \/ (inputDesc.shaderTarget = "FragmentShader" /\ sd.isShaderOutput)
    \/ (inputDesc.shaderTarget = "ComputeShader" /\ (sd.isShaderInput \/ sd.isShaderOutput))

\* A top-level line "in ...;" or "out ...;" in a direction of the struct.
IsInOutGlobal(l, sd) ==
    /\ l.indent = 0
    /\ EndsWith(l.text, ";")
    /\ \/ (sd.isShaderInput /\ StartsWith(l.text, "in "))
       \/ (sd.isShaderOutput /\ StartsWith(l.text, "out "))

IsBlockHeader(l, sd) ==
    /\ l.indent = 0
    /\ \/ (sd.isShaderInput /\ l.text = "in _I" \o sd.ident)
       \/ (sd.isShaderOutput /\ l.text = "out _I" \o sd.ident)

\* The member statements of the struct that have a variable to generate.
EnabledMembers(sd) ==
    { m \in 1..Len(sd.members) :
        \E d \in 1..Len(sd.members[m].varDecls) : ~sd.members[m].varDecls[d].disableCodeGen }

\* C5: an input/output struct is resolved into one top-level in/out global
\* per member (and no interface block) exactly when the stage is vertex and
\* the struct an input, fragment and an output, or compute; otherwise it is
\* written as one interface block "in|out _I<Name> { members } <aliasName>;"
\* and no top-level in/out global.
C5_ResolvedOrInterfaceBlock ==
    \A i \in Globals :
        (/\ Global(i).type = "StructDeclStmnt"
         /\ Completed(i)
         /\ Global(i).structDecl.isReachable
         /\ (Global(i).structDecl.isShaderInput \/ Global(i).structDecl.isShaderOutput)) =>
            LET sd == Global(i).structDecl
                L  == NodeLines(i)
            IN  IF StageCannotTakeBlock(sd)
                THEN /\ \A k \in 1..Len(L) : ~IsBlockHeader(L[k], sd)
                     /\ \A m \in EnabledMembers(sd) :
                          \E k \in 1..Len(L) :
                              /\ IsInOutGlobal(L[k], sd)
                              /\ \E d \in 1..Len(sd.members[m].varDecls) :
                                   EndsWith(L[k].text, " " \o sd.members[m].varDecls[d].ident \o ";")
                     /\ Cardinality({ k \in 1..Len(L) : IsInOutGlobal(L[k], sd) })
                            = Cardinality(EnabledMembers(sd))
                ELSE /\ { k \in 1..Len(L) : IsInOutGlobal(L[k], sd) } = { }
                     /\ Cardinality({ k \in 1..Len(L) : IsBlockHeader(L[k], sd) }) = 1
                     /\ \E k, c \in 1..(Len(L) - 1) :
                          /\ k + 1 < c
                          /\ IsBlockHeader(L[k], sd)
                          /\ L[k + 1].text = "{"
                          /\ \A j \in (k + 2)..(c - 1) : L[j].indent = 1
                          /\ L[c].text = "}" /\ L[c].indent = 0
                          /\ L[c + 1].text = sd.aliasName \o ";" /\ L[c + 1].indent = 0

\* A vertex-stage input struct whose two members became two globals.
C5_Witness ==
    /\ pc = "done"
    /\ inputDesc.shaderTarget = "VertexShader"
    /\ \E i \in Globals :
         /\ Global(i).type = "StructDeclStmnt"
         /\ Global(i).structDecl.isShaderInput
         /\ Cardinality({ k \in 1..Len(NodeLines(i)) :
                            IsInOutGlobal(NodeLines(i)[k], Global(i).structDecl) }) >= 2

\* C6 as stated: no member with a system-value semantic is written as an
\* in/out declaration, neither inside an interface block nor as a top-level
\* global of a resolved struct.
C6_NoSystemValueMemberDeclared ==
    \A i \in Globals :
        (/\ Global(i).type = "StructDeclStmnt"
         /\ (Global(i).structDecl.isShaderInput \/ Global(i).structDecl.isShaderOutput)) =>
            \A m \in 1..Len(Global(i).structDecl.members) :
              \A d \in 1..Len(Global(i).structDecl.members[m].varDecls) :
                HasSystemValueSemantic(Global(i).structDecl.members[m].varDecls[d].semantics) =>
                  \A k \in 1..Len(NodeLines(i)) :
                    ~( /\ EndsWith(NodeLines(i)[k].text,
                                   " " \o Global(i).structDecl.members[m].varDecls[d].ident \o ";")
                       /\ \/ IsInOutGlobal(NodeLines(i)[k], Global(i).structDecl)
                          \/ (~StageCannotTakeBlock(Global(i).structDecl)
                                /\ NodeLines(i)[k].indent = 1) )

RECURSIVE ReturnsWithValue(_)
ReturnsWithValue(stmnts) ==
    IF Len(stmnts) = 0 THEN 0
    ELSE (CASE Head(stmnts).type = "ReturnStmnt" ->
                    (IF IsNull(Head(stmnts).expr) THEN 0 ELSE 1)
            [] Head(stmnts).type = "CodeBlockStmnt" ->
                    ReturnsWithValue(Head(stmnts).codeBlock.stmnts)
            [] OTHER -> 0)
         + ReturnsWithValue(Tail(stmnts))

\* The assignments a return site owes: one, or one per member of the struct.
OutputAssignments ==
    IF IsNull(program.outputSemantics.returnType.symbolRef) THEN 1
    ELSE Len(Deref(program.outputSemantics.returnType.symbolRef).members)

\* L[k] is "return;" closing a scope that holds a assignments before it.
IsAssignedReturn(L, k, a) ==
    /\ k - a - 1 >= 1
    /\ k + 1 <= Len(L)
    /\ L[k - a - 1].text = "{"
    /\ \A j \in (k - a)..(k - 1) : Contains(L[j].text, " = ")
    /\ L[k].text = "return;"
    /\ L[k + 1].text = "}"

\* C7 as stated: every return with a value inside the entry point is
\* written as the assignments to the outputs (one, or one per member of a
\* returned struct) followed by "return;"; no value is dropped.
C7_ReturnValuesAssigned ==
    (HasEntryPoint /\ Completed(EntryIndex)) =>
        LET L == NodeLines(EntryIndex)
        IN  /\ Cardinality({ k \in 1..Len(L) : L[k].text = "return;" })
                = ReturnsWithValue(Deref(Global(EntryIndex).codeBlock).stmnts)
            /\ \A k \in 1..Len(L) :
                 L[k].text = "return;" => IsAssignedReturn(L, k, OutputAssignments)

\* The inputs of one entry-point parameter as <<data type, name, first
\* semantic, used>>: the members of a struct parameter, or the parameter
\* itself when it has one variable and one semantic.
ParamInputs(p) ==
    IF ~IsNull(p.varType.symbolRef)
    THEN UNION { { << Deref(p.varType.symbolRef).members[m].varType.typeDenoter.dataType,
                      Deref(p.varType.symbolRef).members[m].varDecls[d].ident,
                      Head(Deref(p.varType.symbolRef).members[m].varDecls[d].semantics),
                      Deref(p.varType.symbolRef).members[m].varDecls[d].isReachable >> :
                    d \in 1..Len(Deref(p.varType.symbolRef).members[m].varDecls) } :
                 m \in 1..Len(Deref(p.varType.symbolRef).members) }
    ELSE IF Len(p.varDecls) = 1 /\ Len(p.varDecls[1].semantics) = 1
    THEN { << p.varType.typeDenoter.dataType, p.varDecls[1].ident,
              Head(p.varDecls[1].semantics), p.varDecls[1].isReachable >> }
    ELSE { }

EntryInputs ==
    UNION { ParamInputs(Global(EntryIndex).parameters[i]) :
              i \in 1..Len(Global(EntryIndex).parameters) }

SystemValueInputs == { x \in EntryInputs : IsSystemSemantic(x[3]) }

BuiltinInputs == { x \in SystemValueInputs : ~IsNull(SemanticToGLSLKeyword(x[3])) }

PrologueText(x) ==
    Deref(DataTypeToGLSLKeyword(x[1])) \o " " \o x[2] \o " = "
        \o Deref(SemanticToGLSLKeyword(x[3])) \o ";"

\* The index of the header of main() among the lines of the entry point.
MainHeader(L) == CHOOSE k \in 1..Len(L) : L[k].text = "void main()"

\* C8 as stated: the prologue holds a local variable for each used
\* system-value input and none for an input that is not used.
C8_OnlyUsedInputsInPrologue ==
    (HasEntryPoint /\ Completed(EntryIndex)) =>
        \A x \in BuiltinInputs :
            (\E k \in 1..Len(NodeLines(EntryIndex)) :
                 NodeLines(EntryIndex)[k].text = PrologueText(x)) <=> x[4]

\* C8: main() opens with one local variable "<type> <name> = <built-in>;"
\* for every system-value input that has a built-in, used or not, before
\* every statement of the body and closed by an empty line; an input
\* without a system-value semantic adds no line; a system-value input
\* without a built-in ends the call with an error.
C8_EverySystemValueInputInPrologue ==
    HasEntryPoint =>
        /\ (Attempted(EntryIndex) /\ SystemValueInputs # BuiltinInputs) =>
              /\ Failed(gen)
              /\ Deref(gen.err).msg = "failed to map semantic name to GLSL keyword"
        /\ Completed(EntryIndex) =>
              LET L == NodeLines(EntryIndex)
                  h == MainHeader(L)
                  n == Cardinality(BuiltinInputs)
              IN  /\ SystemValueInputs = BuiltinInputs
                  /\ L[h + 1].text = "{"
                  /\ \A x \in BuiltinInputs :
                       \E k \in (h + 2)..(h + 1 + n) :
                           L[k].text = PrologueText(x) /\ L[k].indent = 1
                  /\ (n > 0 => L[h + 2 + n].text = "")
                  /\ \A x \in EntryInputs \ BuiltinInputs :
                       \A k \in 1..Len(L) : ~Contains(L[k].text, " " \o x[2] \o " = ")

\* A finished call whose entry point has a system-value input that is not
\* used and whose prologue holds the local variable for it.
C8_Witness ==
    /\ pc = "done"
    /\ \E x \in BuiltinInputs :
         /\ ~x[4]
         /\ \E k \in 1..Len(NodeLines(EntryIndex)) :
              NodeLines(EntryIndex)[k].text = PrologueText(x)

\* C9 as stated: the output of a fragment shader with semantic SV_Target
\* and index n is declared with layout(location = n).
C9_TargetLocationIsSemanticIndex ==
    (/\ pc \in { "globals", "done" }
     /\ inputDesc.shaderTarget = "FragmentShader"
     /\ outputDesc.shaderVersion >= 130
     /\ program.outputSemantics.functionSemantic = "Target"
     /\ IsNull(program.outputSemantics.returnType.symbolRef)) =>
        \E k \in 1..Len(gen.out) :
            /\ gen.out[k].sec = "Output"
            /\ StartsWith(gen.out[k].text,
                   "layout(location = "
                       \o to_string(Global(EntryIndex).semantic.index) \o ") out ")

\* C10 as stated: gl_Position is written only in the vertex, tessellation
\* and geometry stages and gl_FragDepth only in the fragment stage.
C10_BuiltinsMatchStage ==
    \A k \in 1..Len(gen.out) :
        /\ Contains(gen.out[k].text, "gl_FragDepth")
              => inputDesc.shaderTarget = "FragmentShader"
        /\ Contains(gen.out[k].text, "gl_Position")
              => inputDesc.shaderTarget \in
                     { "VertexShader", "TessellationControlShader",
                       "TessellationEvaluationShader", "GeometryShader" }

\* -------------------------------------------------------------------- calls
\* The body of the entry point is one statement, a call.
BodyIsCall ==
    /\ HasEntryPoint
    /\ ~IsNull(Global(EntryIndex).codeBlock)
    /\ Len(Deref(Global(EntryIndex).codeBlock).stmnts) = 1
    /\ Deref(Global(EntryIndex).codeBlock).stmnts[1].type = "ExprStmnt"
    /\ Deref(Global(EntryIndex).codeBlock).stmnts[1].expr.type = "FunctionCallExpr"

BodyCall == Deref(Global(EntryIndex).codeBlock).stmnts[1].expr.call

NumArgs == Len(BodyCall.arguments)

\* The statement has been emitted as this text / with this prefix.
CallEmitted(text) ==
    /\ Completed(EntryIndex)
    /\ \E k \in 1..Len(NodeLines(EntryIndex)) : NodeLines(EntryIndex)[k].text = text \o ";"

CallEmittedFrom(prefix) ==
    /\ Completed(EntryIndex)
    /\ \E k \in 1..Len(NodeLines(EntryIndex)) :
         /\ NodeLines(EntryIndex)[k].indent = 1
         /\ StartsWith(NodeLines(EntryIndex)[k].text, prefix)

\* The visit of the statement ended with this error.
CallRejected(msg) ==
    /\ Attempted(EntryIndex)
    /\ ~IsNull(gen.err)
    /\ Deref(gen.err).kind = "Report"
    /\ Deref(gen.err).msg = msg

\* A method called on a texture object, and the name of the method.
IsTexCall ==
    /\ BodyIsCall
    /\ BodyCall.isTexFunc
    /\ BodyCall.intrinsic \notin { "Mul", "Rcp" }
    /\ ~IsNull(Deref(BodyCall.varIdent).next)

TexMember == Deref(Deref(BodyCall.varIdent).next).ident

TexObject == Deref(BodyCall.varIdent).ident

LoweredTexFunc(method) ==
    CASE method = "Sample"        -> "texture"
      [] method = "SampleBias"    -> "textureOffset"
      [] method = "SampleGrad"    -> "textureGrad"
      [] method = "SampleLevel"   -> "textureLod"
      [] method = "Load"          -> "texelFetch"
      [] method = "GetDimensions" -> "textureSize"
      [] OTHER                    -> ""

\* C11: a method called on a texture object is emitted as a call of its
\* GLSL function (Sample -> texture, SampleBias -> textureOffset,
\* SampleGrad -> textureGrad, SampleLevel -> textureLod, Load -> texelFetch,
\* GetDimensions -> textureSize); each of the six names is accepted, and
\* any other method name ends the call with an error.
C11_TextureMethodsLowered ==
    (IsTexCall /\ Attempted(EntryIndex)) =>
        IF LoweredTexFunc(TexMember) # ""
        THEN CallEmittedFrom(LoweredTexFunc(TexMember) \o "(")
        ELSE ~IsNull(gen.err)

\* C12: the emitted texture call has the texture object the method was
\* called on as its first argument, e.g. t.Sample(s, uv) -> texture(t, uv).
C12_TextureObjectFirstArgument ==
    (IsTexCall /\ Completed(EntryIndex)) =>
        CallEmittedFrom(LoweredTexFunc(TexMember) \o "(" \o TexObject)

IsMulCall == BodyIsCall /\ BodyCall.intrinsic = "Mul"

\* The text the emitter writes for an expression on its own.
ExprText(expr) == CurText(VisitExpr(BeginLn(Bind(GenInit, program)), expr))

IsAssignment(expr) == expr.type = "VarAccessExpr" /\ ~IsNull(expr.assignExpr)

\* Operands that are not atomic: ternary, binary, unary, post-unary, cast,
\* assignment, comma list.
IsNonAtomic(expr) ==
    \/ expr.type \in { "TernaryExpr", "BinaryExpr", "UnaryExpr", "PostUnaryExpr",
                       "CastExpr", "ListExpr" }
    \/ IsAssignment(expr)

Parenthesized(expr) ==
    IF IsNonAtomic(expr) THEN "(" \o ExprText(expr) \o ")" ELSE ExprText(expr)

\* C13: mul(a, b) with exactly two arguments is emitted as (A * B), every
\* non-atomic operand (ternary, binary, unary, post-unary, cast, assignment,
\* comma list) wrapped in parentheses; any other number of arguments is an
\* error.
C13_MulOperandsParenthesized ==
    (IsMulCall /\ Attempted(EntryIndex)) =>
        IF NumArgs = 2
        THEN CallEmitted("(" \o Parenthesized(BodyCall.arguments[1]) \o " * "
                             \o Parenthesized(BodyCall.arguments[2]) \o ")")
        ELSE CallRejected("invalid number of arguments in intrinsic")

IsInterlockedCall ==
    /\ BodyIsCall
    /\ BodyCall.intrinsic \in
         { "InterlockedAdd", "InterlockedAnd", "InterlockedOr", "InterlockedXor",
           "InterlockedCompareExchange", "InterlockedCompareStore", "InterlockedMin",
           "InterlockedMax", "InterlockedExchange" }

AtomicName == Deref(IntrinsicToGLSLKeyword(BodyCall.intrinsic))

AtomicText ==
    AtomicName \o "(" \o ExprText(BodyCall.arguments[1]) \o ", "
               \o ExprText(BodyCall.arguments[2]) \o ")"

\* C14: a call of the Interlocked family (Add, And, Or, Xor,
\* CompareExchange, CompareStore, Min, Max, Exchange) with two arguments is
\* emitted as atomicX(first, second), with three arguments as
\* third = atomicX(first, second); fewer than two or more than three
\* arguments are an error, so the call never takes the standard call path
\* (which writes every argument inside the parentheses).
C14_InterlockedAsAtomic ==
    (IsInterlockedCall /\ Attempted(EntryIndex)) =>
        /\ StartsWith(AtomicName, "atomic")
        /\ CASE NumArgs = 2 -> CallEmitted(AtomicText)
             [] NumArgs = 3 -> CallEmitted(ExprText(BodyCall.arguments[3]) \o " = " \o AtomicText)
             [] OTHER       -> CallRejected("invalid number of arguments in intrinsic")

C14_Witness ==
    /\ IsInterlockedCall
    /\ BodyCall.intrinsic = "InterlockedAdd"
    /\ NumArgs = 3
    /\ pc = "done"
    /\ CallEmitted("prev = atomicAdd(counter, 1)")

IsRcpCall == BodyIsCall /\ BodyCall.intrinsic = "Rcp"

\* The type of the argument of rcp, and its GLSL name when it is a base type.
RcpArgType == Get(GetTypeDenoter(BodyCall.arguments[1]))

RcpTypeName == Deref(DataTypeToGLSLKeyword(RcpArgType.dataType))

\* C15 as stated: rcp(x) with one argument of base type T is emitted as
\* (T(1) / x); an argument of another type, or another number of arguments,
\* is an error.
C15_RcpAsDivision ==
    (IsRcpCall /\ Attempted(EntryIndex)) =>
        IF NumArgs # 1 THEN CallRejected("invalid number of arguments in intrinsic")
        ELSE IF RcpArgType.kind = "Base"
        THEN CallEmitted("(" \o RcpTypeName \o "(1) / " \o ExprText(BodyCall.arguments[1]) \o ")")
        ELSE CallRejected("invalid argument type for intrinsic 'rcp'")

\* C15: rcp(x) with one argument of base type T is emitted as
\* (T(1) / (x)), the argument inside parentheses of its own; an argument of
\* another type, or another number of arguments, is an error.
C15_RcpAsBracketedDivision ==
    (IsRcpCall /\ Attempted(EntryIndex)) =>
        IF NumArgs # 1 THEN CallRejected("invalid number of arguments in intrinsic")
        ELSE IF RcpArgType.kind = "Base"
        THEN CallEmitted("(" \o RcpTypeName \o "(1) / (" \o ExprText(BodyCall.arguments[1]) \o "))")
        ELSE CallRejected("invalid argument type for intrinsic 'rcp'")

C15_Witness ==
    /\ IsRcpCall
    /\ NumArgs = 1
    /\ RcpArgType = [kind |-> "Base", dataType |-> "Float3"]
    /\ pc = "done"
    /\ CallEmitted("(vec3(1) / (a + b))")

\* ------------------------------------------------------------ clip helper
ClipLines == SelectSeq(gen.out, LAMBDA l : StartsWith(l.text, "void clip("))

ClipTexts == [i \in 1..Len(ClipLines) |-> ClipLines[i].text]

ProgramHeadWritten == pc \in { "globals", "done" }

UniformClipOverload(T) ==
    "void clip(" \o T \o " x) { if (any(lessThan(x, " \o T \o "(0)))) discard; }"

VectorClipOverload(T) ==
    "void clip(" \o T \o " x) { if (any(lessThan(x, " \o T \o "(0.0)))) discard; }"

\* C16 as stated: the clip helper is emitted if and only if clip is among
\* the used intrinsics, once, as four overloads for float, vec2, vec3 and
\* vec4, each of the form
\* void clip(T x) { if (any(lessThan(x, T(0)))) discard; }.
C16_ClipHelperUniformOverloads ==
    /\ "Clip" \notin program.usedIntrinsics => Len(ClipLines) = 0
    /\ ("Clip" \in program.usedIntrinsics /\ ProgramHeadWritten) =>
           ClipTexts = << UniformClipOverload("float"), UniformClipOverload("vec2"),
                          UniformClipOverload("vec3"), UniformClipOverload("vec4") >>

\* C16: the clip helper is emitted if and only if clip is among the used
\* intrinsics, once, as four overloads: the scalar one
\* void clip(float x) { if (x < 0.0) discard; } and, for T in vec2, vec3,
\* vec4, void clip(T x) { if (any(lessThan(x, T(0.0)))) discard; }.
C16_ClipHelperOnceIfUsed ==
    /\ "Clip" \notin program.usedIntrinsics => Len(ClipLines) = 0
    /\ ("Clip" \in program.usedIntrinsics /\ ProgramHeadWritten) =>
           ClipTexts = << "void clip(float x) { if (x < 0.0) discard; }",
                          VectorClipOverload("vec2"), VectorClipOverload("vec3"),
                          VectorClipOverload("vec4") >>

C16_Witness ==
    /\ "Clip" \in program.usedIntrinsics
    /\ pc = "done"
    /\ Len(ClipLines) = 4
    /\ Len(program.globalStmnts) >= 2

\* --------------------------------------------------------------- attributes
\* The text without its blanks.
RECURSIVE NoSpaces(_)
NoSpaces(s) ==
    IF Len(s) = 0 THEN ""
    ELSE (IF SubSeq(s, 1, 1) = " " THEN "" ELSE SubSeq(s, 1, 1)) \o NoSpaces(SubSeq(s, 2, Len(s)))

\* The lines written for the attributes of the entry point (blank lines
\* and the gl_FragCoord declaration of the same section left out).
AttributeTexts ==
    LET L == SelectSeq(gen.out, LAMBDA l : /\ l.sec = "Layout"
                                            /\ l.text # ""
                                            /\ ~Contains(l.text, "gl_FragCoord"))
    IN  [i \in 1..Len(L) |-> NoSpaces(L[i].text)]

EntryAttribs == Global(EntryIndex).attribs

\* The lines the attributes stand for, blanks left out.
RECURSIVE LoweredAttributes(_)
LoweredAttributes(attribs) ==
    IF Len(attribs) = 0 THEN << >>
    ELSE (CASE Head(attribs).ident = "numthreads" /\ Len(Head(attribs).arguments) = 3 ->
                 << NoSpaces("layout(local_size_x=" \o ExprText(Head(attribs).arguments[1])
                        \o ", local_size_y=" \o ExprText(Head(attribs).arguments[2])
                        \o ", local_size_z=" \o ExprText(Head(attribs).arguments[3])
                        \o ") in;") >>
            [] Head(attribs).ident = "earlydepthstencil" ->
                 << NoSpaces("layout(early_fragment_tests) in;") >>
            [] OTHER -> << >>)
         \o LoweredAttributes(Tail(attribs))

BadNumThreads ==
    \E i \in 1..Len(EntryAttribs) :
        EntryAttribs[i].ident = "numthreads" /\ Len(EntryAttribs[i].arguments) # 3

\* C17: [numthreads(x,y,z)] with exactly three arguments is emitted as
\* layout(local_size_x=x, local_size_y=y, local_size_z=z) in; (any other
\* number of arguments is an error), [earlydepthstencil] as
\* layout(early_fragment_tests) in;, and every other attribute, [unroll],
\* [loop] and [branch] on any statement included, adds no text. Lines are
\* compared without their blanks.
C17_AttributesLowered ==
    HasEntryPoint =>
        /\ ProgramHeadWritten =>
               ~BadNumThreads /\ AttributeTexts = LoweredAttributes(EntryAttribs)
        /\ (BadNumThreads /\ pc = "failed" /\ passes = AllPasses) =>
               Deref(report).msg = "invalid number of arguments for \"numthreads\" attribute"
        /\ \A k \in 1..Len(gen.out) :
               /\ ~Contains(gen.out[k].text, "unroll")
               /\ ~Contains(gen.out[k].text, "loop")
               /\ ~Contains(gen.out[k].text, "branch")
               /\ (gen.out[k].sec = "FunctionDecl" => ~Contains(gen.out[k].text, "layout("))

C17_Witness ==
    /\ HasEntryPoint
    /\ pc = "done"
    /\ Len(EntryAttribs) = 2
    /\ EntryAttribs[1].ident = "unroll"
    /\ EntryAttribs[2].ident = "numthreads"
    /\ Deref(Global(EntryIndex).codeBlock).stmnts[1].type = "CodeBlockStmnt"
    /\ Deref(Global(EntryIndex).codeBlock).stmnts[1].attribs = EntryAttribs
    /\ AttributeTexts = << "layout(local_size_x=8,local_size_y=4,local_size_z=1)in;" >>

\* ---------------------------------------------------------------- registers
\* registerName is the letter followed by a slot number.
HasRegister(registerName, letter) == StartsWith(registerName, letter)

Slot(registerName) == SubSeq(registerName, 2, Len(registerName))

\* The visit of global statement i ended with this error.
GlobalRejected(i, msg) ==
    /\ nextStmnt = i + 1
    /\ ~IsNull(gen.err)
    /\ Deref(gen.err).msg = msg

WrongPrefix(registerName, letter) ==
    "invalid register prefix '" \o SubSeq(registerName, 1, 1) \o "' (expected '" \o letter \o "')"

\* A line of global statement i is this text, blanks left out.
GlobalLine(i, text) ==
    \E k \in 1..Len(NodeLines(i)) : NoSpaces(NodeLines(i)[k].text) = NoSpaces(text)

\* No declaration of the name was written for global statement i.
NotDeclared(i, ident) ==
    \A k \in 1..Len(NodeLines(i)) :
        ~( Contains(NodeLines(i)[k].text, "uniform")
             /\ Contains(NodeLines(i)[k].text, ident) )

BufferBound(i) ==
    CASE Global(i).registerName = "" ->
             Completed(i) /\ GlobalLine(i, "layout(std140) uniform " \o Global(i).ident)
      [] HasRegister(Global(i).registerName, "b") ->
             /\ Completed(i)
             /\ GlobalLine(i, "layout(std140, binding=" \o Slot(Global(i).registerName)
                               \o ") uniform " \o Global(i).ident)
      [] OTHER ->
             /\ GlobalRejected(i, WrongPrefix(Global(i).registerName, "b"))
             /\ NotDeclared(i, Global(i).ident)

\* Texture d of statement i, reached once the textures before it are written.
TextureBound(i, d, samplerType) ==
    LET tex == Global(i).textureDecls[d]
    IN  CASE tex.registerName = "" ->
                 GlobalLine(i, "uniform " \o samplerType \o " " \o tex.ident \o ";")
          [] HasRegister(tex.registerName, "t") ->
                 GlobalLine(i, "layout(binding=" \o Slot(tex.registerName) \o ") uniform "
                                \o samplerType \o " " \o tex.ident \o ";")
          [] OTHER ->
                 /\ GlobalRejected(i, WrongPrefix(tex.registerName, "t"))
                 /\ NotDeclared(i, tex.ident)

\* The textures of statement i before d all carry a register the emitter
\* accepts (or none).
TexturesBeforeAccepted(i, d) ==
    \A e \in 1..(d - 1) :
        \/ ~Global(i).textureDecls[e].isReachable
        \/ Global(i).textureDecls[e].registerName = ""
        \/ HasRegister(Global(i).textureDecls[e].registerName, "t")

\* C18: a reachable uniform buffer with register b# is declared
\* layout(std140, binding=#) uniform ..., a reachable texture with register
\* t# is declared layout(binding=#) uniform sampler...; a register with
\* another letter is an error and the declaration is not written; without a
\* register, the declaration carries no binding. Lines are compared without
\* their blanks.
C18_RegisterIsBinding ==
    \A i \in Globals :
        Attempted(i) =>
            /\ (Global(i).type = "BufferDeclStmnt" /\ Global(i).isReachable) => BufferBound(i)
            /\ (/\ Global(i).type = "TextureDeclStmnt"
                /\ Global(i).isReachable
                /\ ~IsNull(BufferTypeToGLSLKeyword(Global(i).textureType))) =>
                   \A d \in 1..Len(Global(i).textureDecls) :
                       (Global(i).textureDecls[d].isReachable /\ TexturesBeforeAccepted(i, d)) =>
                           TextureBound(i, d, Deref(BufferTypeToGLSLKeyword(Global(i).textureType)))

C18_Witness ==
    /\ pc = "done"
    /\ Len(program.globalStmnts) = 2
    /\ Global(1).type = "TextureDeclStmnt"
    /\ Global(1).textureDecls[1].isReachable
    /\ Global(1).textureDecls[1].registerName = "t2"
    /\ Global(1).textureDecls[2].isReachable
    /\ GlobalLine(1, "layout(binding=2) uniform sampler2D tex;")
    /\ GlobalLine(1, "uniform sampler2D shadowMap;")

\* -------------------------------------------------------------- inheritance
\* The members of a struct with those of its bases, outermost base first.
RECURSIVE InheritedMembers(_)
InheritedMembers(sd) ==
    (IF IsNull(sd.baseStructRef) THEN << >> ELSE InheritedMembers(Deref(sd.baseStructRef)))
        \o sd.members

RECURSIVE MemberIdents(_)
MemberIdents(members) ==
    IF Len(members) = 0 THEN << >>
    ELSE [d \in 1..Len(Head(members).varDecls) |-> Head(members).varDecls[d].ident]
             \o MemberIdents(Tail(members))

\* Every member is a user-defined value with code generation enabled.
AllMembersPlain(members) ==
    \A m \in 1..Len(members) :
        \A d \in 1..Len(members[m].varDecls) :
            /\ ~members[m].varDecls[d].disableCodeGen
            /\ ~HasSystemValueSemantic(members[m].varDecls[d].semantics)

\* The lines declare exactly these names, in this order.
DeclaresInOrder(L, idents) ==
    /\ Len(L) = Len(idents)
    /\ \A k \in 1..Len(L) : EndsWith(L[k].text, " " \o idents[k] \o ";")

\* The member lines of the block written for global statement i / the
\* in and out globals written for it.
BlockMemberLines(i) == SelectSeq(NodeLines(i), LAMBDA l : l.indent = 1)

ResolvedMemberLines(i) ==
    SelectSeq(NodeLines(i), LAMBDA l : /\ l.indent = 0
                                        /\ EndsWith(l.text, ";")
                                        /\ (StartsWith(l.text, "in ") \/ StartsWith(l.text, "out ")))

\* C19: a struct S : B is emitted with the members of B (recursively,
\* outermost base first) followed by the members of S: the struct
\* declaration, the interface block and the in/out globals of a resolved
\* struct each list all of them, in this order.
C19_BaseMembersFirst ==
    \A i \in Globals :
        (/\ Global(i).type = "StructDeclStmnt"
         /\ Global(i).structDecl.isReachable
         /\ AllMembersPlain(InheritedMembers(Global(i).structDecl))
         /\ Completed(i)) =>
            /\ DeclaresInOrder(BlockMemberLines(i),
                               MemberIdents(InheritedMembers(Global(i).structDecl)))
            /\ (\E k \in 1..Len(NodeLines(i)) :
                    IsInOutGlobal(NodeLines(i)[k], Global(i).structDecl)) =>
                   DeclaresInOrder(ResolvedMemberLines(i),
                                   MemberIdents(InheritedMembers(Global(i).structDecl)))

\* ----------------------------------------------------------- data types
\* C20: for every vector type t (Bool2..Double4),
\* VectorDataType(BaseDataType(t), VectorTypeDim(t)) = t; for every scalar
\* base type b and n in 1..4, VectorDataType(b, n) is b when n = 1 and
\* otherwise the type at index Bool2 + (b - Bool) * 3 + (n - 2), whose base
\* type is b and whose dimension is n.
C20_VectorTypeRoundTrip ==
    /\ (IsVectorType(calc.t) /\ ~IsNull(calc.joined)) => Deref(calc.joined) = calc.t
    /\ (IsScalarType(calc.b) /\ calc.n \in 1..4 /\ ~IsNull(calc.made)) =>
           IF calc.n = 1 THEN Deref(calc.made) = calc.b
           ELSE /\ Idx(Deref(calc.made)) =
                       Idx("Bool2") + (Idx(calc.b) - Idx("Bool")) * 3 + (calc.n - 2)
                /\ IsVectorType(Deref(calc.made))
                /\ BaseDataType(Deref(calc.made)) = calc.b
                /\ VectorTypeDim(Deref(calc.made)) = calc.n

C20_Witness ==
    /\ calc.t = "Half3"
    /\ calc.base = Ptr("Half")
    /\ calc.dim = Ptr(3)
    /\ calc.joined = Ptr("Half3")
    /\ calc.b = "Double"
    /\ calc.n = 4
    /\ calc.made = Ptr("Double4")

\* C21: for every scalar base b and rows r, columns c in 1..4,
\* MatrixDataType(b, 1, 1) = b, MatrixDataType(b, 1, c) = VectorDataType(b, c),
\* MatrixDataType(b, r, 1) = VectorDataType(b, r), and for r, c >= 2 the
\* result is the type at index Bool2x2 + (b - Bool) * 9 + (r - 2) * 3 + (c - 2),
\* whose base type is b and whose matrix dimension is (r, c); for a
\* non-scalar base or a dimension outside 1..4 the result is Undefined.
C21_MatrixDataTypeShape ==
    ~IsNull(calc.made) =>
        IF IsScalarType(calc.b) /\ calc.rows \in 1..4 /\ calc.columns \in 1..4
        THEN /\ (calc.rows = 1 /\ calc.columns = 1) => Deref(calc.made) = calc.b
             /\ (calc.rows = 1 /\ calc.columns >= 2) =>
                    Deref(calc.made) = VectorDataType(calc.b, calc.columns)
             /\ (calc.columns = 1 /\ calc.rows >= 2) =>
                    Deref(calc.made) = VectorDataType(calc.b, calc.rows)
             /\ (calc.rows >= 2 /\ calc.columns >= 2) =>
                    /\ Idx(Deref(calc.made)) =
                           Idx("Bool2x2") + (Idx(calc.b) - Idx("Bool")) * 9
                               + (calc.rows - 2) * 3 + (calc.columns - 2)
                    /\ IsMatrixType(Deref(calc.made))
                    /\ ~IsNull(calc.base) => Deref(calc.base) = calc.b
                    /\ ~IsNull(calc.dim) => Deref(calc.dim) = << calc.rows, calc.columns >>
        ELSE Deref(calc.made) = "Undefined"

C21_Witness ==
    /\ calc.b = "Half"
    /\ calc.rows = 3
    /\ calc.columns = 4
    /\ calc.made = Ptr("Half3x4")
    /\ calc.base = Ptr("Half")
    /\ calc.dim = Ptr(<< 3, 4 >>)

\* ------------------------------------------------------------ subscripts
Subscripted == ~IsNull(calc.result)
Accepted == Subscripted /\ ~Deref(calc.result).thrown
Rejected == Subscripted /\ Deref(calc.result).thrown

CharsOf(s) == { SubSeq(s, i, i) : i \in 1..Len(s) }
FirstOf(letters, n) == { letters[i] : i \in 1..n }

\* C22: for a scalar or vector type t with n components and a subscript s,
\* SubscriptDataType accepts s if and only if 1 <= |s| <= 4 and every
\* character of s is among the first n of x, y, z, w or every character is
\* among the first n of r, g, b, a; on acceptance the result is
\* VectorDataType(BaseDataType(t), |s|), otherwise an invalid-argument error.
C22_VectorSwizzleValidated ==
    (Subscripted /\ VectorTypeDim(calc.t) \in 1..4) =>
        /\ Accepted <=>
               /\ Len(calc.subscript) \in 1..4
               /\ \/ CharsOf(calc.subscript) \subseteq
                         FirstOf(<< "x", "y", "z", "w" >>, VectorTypeDim(calc.t))
                  \/ CharsOf(calc.subscript) \subseteq
                         FirstOf(<< "r", "g", "b", "a" >>, VectorTypeDim(calc.t))
        /\ Accepted => Deref(calc.result).type =
                           VectorDataType(BaseDataType(calc.t), Len(calc.subscript))
        /\ ~Accepted => Deref(calc.result).thrown

\* A swizzle of three components accepted on a vector of four.
C22_Witness ==
    /\ calc.t = "Bool4"
    /\ calc.subscript = "xwx"
    /\ calc.result = Ptr(Returned("Bool3"))

\* An entry _mRC (digits 0..3) somewhere in the chain, and an entry _RC
\* (digits 1..4) somewhere in the chain.
HasZeroBasedEntry(s) ==
    \E i \in 1..Len(s) : i + 3 <= Len(s) /\ SubSeq(s, i, i + 1) = "_m"

HasOneBasedEntry(s) ==
    \E i \in 1..Len(s) : /\ i + 2 <= Len(s)
                         /\ SubSeq(s, i, i) = "_"
                         /\ Find(Digits, SubSeq(s, i + 1, i + 1)) # 0

\* C23: a subscript chain on a matrix type that mixes zero-based entries
\* (_mRC) and one-based entries (_RC), such as _m00_11, is rejected with an
\* error.
C23_MixedBasesRejected ==
    (/\ Subscripted
     /\ IsMatrixType(calc.t)
     /\ HasZeroBasedEntry(calc.subscript)
     /\ HasOneBasedEntry(calc.subscript)) => Rejected

\* C30: SubscriptDataType never returns an undefined type: it raises an
\* invalid-argument error or returns a scalar or vector type of the
\* operand's base type with 1 to 4 components.
C30_SubscriptNeverUndefined ==
    Accepted =>
        /\ Deref(calc.result).type # "Undefined"
        /\ VectorTypeDim(Deref(calc.result).type) \in 1..4
        /\ BaseDataType(Deref(calc.result).type) = BaseDataType(calc.t)

\* ------------------------------------------------------- double to float
\* C27: DoubleToFloatDataType maps every double-based type to the
\* float-based type of the same shape (same vector dimension, same rows and
\* columns), leaves every other data type unchanged, is idempotent, and its
\* result is never a double-based type.
C27_DoubleNarrowedToFloat ==
    /\ ~IsNull(calc.narrow) =>
           /\ IF IsDoubleRealType(calc.t)
              THEN /\ BaseDataType(Deref(calc.narrow)) = "Float"
                   /\ VectorTypeDim(Deref(calc.narrow)) = VectorTypeDim(calc.t)
                   /\ MatrixTypeDim(Deref(calc.narrow)) = MatrixTypeDim(calc.t)
              ELSE Deref(calc.narrow) = calc.t
           /\ ~IsDoubleRealType(Deref(calc.narrow))
    /\ ~IsNull(calc.again) => Deref(calc.again) = Deref(calc.narrow)

C27_Witness ==
    /\ calc.t = "Double3x4"
    /\ calc.narrow = Ptr("Float3x4")
    /\ calc.again = Ptr("Float3x4")

\* ------------------------------------------------------ indexed semantics
\* C24: for every semantic kind and every index i >= 0, constructing an
\* IndexedSemantic from the string ToString(IndexedSemantic{kind, i}) yields
\* an IndexedSemantic with the same kind, the same index and the same
\* user-defined name.
C24_IndexedSemanticRoundTrip ==
    ~IsNull(calc.parsed) =>
        /\ Deref(calc.parsed).semantic_ = Deref(calc.made).semantic_
        /\ Deref(calc.parsed).index_ = Deref(calc.made).index_
        /\ Deref(calc.parsed).userDefined_ = Deref(calc.made).userDefined_

\* The number of decimal digits the text ends with.
TrailingDigits(s) ==
    CHOOSE k \in 0..Len(s) :
        /\ \A i \in (Len(s) - k + 1)..Len(s) : Find(Digits, SubSeq(s, i, i)) # 0
        /\ k < Len(s) => Find(Digits, SubSeq(s, Len(s) - k, Len(s) - k)) = 0

\* The integer a text of decimal digits denotes.
RECURSIVE DecimalValue(_)
DecimalValue(s) ==
    IF Len(s) = 0 THEN 0
    ELSE DecimalValue(SubSeq(s, 1, Len(s) - 1)) * 10
             + (Find(Digits, SubSeq(s, Len(s), Len(s))) - 1)

\* C25: constructing an IndexedSemantic from a user-defined name yields
\* kind UserDefined, an index equal to the integer value of the maximal run
\* of trailing decimal digits of the name (0 when there is none) and a name
\* equal to the text before that run; a name made only of digits keeps the
\* whole text as name with index 0.
C25_IndexFromTrailingDigits ==
    ~IsNull(calc.named) =>
        /\ Deref(calc.named).semantic_ = "UserDefined"
        /\ IF TrailingDigits(calc.name) = Len(calc.name)
           THEN /\ Deref(calc.named).userDefined_ = calc.name
                /\ Deref(calc.named).index_ = 0
           ELSE /\ Deref(calc.named).userDefined_ =
                       SubSeq(calc.name, 1, Len(calc.name) - TrailingDigits(calc.name))
                /\ Deref(calc.named).index_ =
                       DecimalValue(SubSeq(calc.name,
                                           Len(calc.name) - TrailingDigits(calc.name) + 1,
                                           Len(calc.name)))

C25_Witness ==
    /\ calc.name = "TEXCOORD3"
    /\ calc.named = Ptr([semantic_ |-> "UserDefined", index_ |-> 3,
                         userDefined_ |-> "TEXCOORD"])

\* The lexicographic order over (kind, index, user-defined text).
LexicographicLess(x, y) ==
    \/ SemanticIdx(x.semantic_) < SemanticIdx(y.semantic_)
    \/ /\ x.semantic_ = y.semantic_
       /\ \/ x.index_ < y.index_
          \/ x.index_ = y.index_ /\ StringLess(x.userDefined_, y.userDefined_)

\* C26: IndexedSemantic::operator < is the lexicographic order over the
\* triple (kind, index, user-defined text): it is irreflexive and
\* transitive, and of two indexed semantics whose triples differ exactly
\* one is less than the other.
C26_LessIsStrictTotalOrder ==
    /\ ~IsNull(calc.ab) => Deref(calc.ab) = LexicographicLess(calc.a, calc.b)
    /\ ~IsNull(calc.aa) => ~Deref(calc.aa)
    /\ ~IsNull(calc.ac) => ((Deref(calc.ab) /\ Deref(calc.bc)) => Deref(calc.ac))
    /\ (~IsNull(calc.ba) /\ calc.a # calc.b) => (Deref(calc.ab) # Deref(calc.ba))
    /\ (~IsNull(calc.ba) /\ calc.a = calc.b) => (~Deref(calc.ab) /\ ~Deref(calc.ba))

\* Three user defined semantics that differ in the text only.
C26_Witness ==
    /\ calc.a = [semantic_ |-> "UserDefined", index_ |-> 1, userDefined_ |-> ""]
    /\ calc.b = [semantic_ |-> "UserDefined", index_ |-> 1, userDefined_ |-> "A"]
    /\ calc.c = [semantic_ |-> "UserDefined", index_ |-> 1, userDefined_ |-> "AB"]
    /\ calc.ab = Ptr(TRUE)
    /\ calc.ba = Ptr(FALSE)
    /\ calc.bc = Ptr(TRUE)
    /\ calc.ac = Ptr(TRUE)
    /\ calc.aa = Ptr(FALSE)

\* ------------------------------------------------------- no entry point
\* No declaration of the program carries the mark of the reference analyzer.
NothingMarked ==
    \A i \in Globals :
        /\ Global(i).type \in { "FunctionDecl", "BufferDeclStmnt", "TextureDeclStmnt" } =>
               ~Global(i).isReachable
        /\ Global(i).type = "StructDeclStmnt" => ~Global(i).structDecl.isReachable

\* C28: when the program has no entry point, GenerateCodePrimary reports
\* the error `entry point "<name>" not found` and does nothing else: no
\* reference analysis, no conversion, and not a single character written to
\* the output.
C28_NoEntryPointOnlyReports ==
    (~HasEntryPoint /\ pc # "start") =>
        /\ pc = "failed"
        /\ report = Ptr([type |-> "Error",
                         msg |-> "entry point \"" \o inputDesc.entryPoint \o "\" not found",
                         ast |-> "none"])
        /\ passes = << >>
        /\ NothingMarked
        /\ gen.out = << >>
        /\ IsNull(gen.cur)
        /\ IsNull(gen.err)

C28_Witness ==
    /\ ~HasEntryPoint
    /\ pc = "failed"
    /\ inputDesc.entryPoint = "main"
    /\ Len(program.globalStmnts) = 2
    /\ collab.refAnalyzer = "ok"

\* ----------------------------------------------------------------- scopes
IsScopeOpen(k) == gen.out[k].text = "{"

IsScopeClose(k) == gen.out[k].text \in { "}", "};" }

\* The first closing line after line k at the indentation of line k.
ClosesAt(k, j) ==
    /\ j > k
    /\ IsScopeClose(j)
    /\ gen.out[j].indent = gen.out[k].indent
    /\ \A i \in (k + 1)..(j - 1) : gen.out[i].indent > gen.out[k].indent

\* Every opened scope is closed by one later line at the same depth, with
\* everything between them deeper, and every closing line closes one.
ScopesMatched ==
    /\ \A k \in 1..Len(gen.out) :
           IsScopeOpen(k) => \E j \in 1..Len(gen.out) : ClosesAt(k, j)
    /\ \A j \in 1..Len(gen.out) :
           IsScopeClose(j) => \E k \in 1..Len(gen.out) : IsScopeOpen(k) /\ ClosesAt(k, j)

\* The lines WriteInputSemantics puts before the statements of the body.
PrologueLength ==
    Len(WriteInputSemantics([Bind(gen, program) EXCEPT !.out = << >>]).out)

\* Line k is written for a statement of the entry point's body: after the
\* prologue that follows the opening line of `void main()`, before the
\* closing line.
InEntryPointBody(k) ==
    \E h \in 1..(Len(gen.out) - 1) :
        /\ gen.out[h].text = "void main()"
        /\ IsScopeOpen(h + 1)
        /\ h + 1 + PrologueLength < k
        /\ \E j \in 1..Len(gen.out) : ClosesAt(h + 1, j) /\ k < j

\* Line k is written for a member of an interface block: between the
\* opening and the closing line that follow `in _I<name>` / `out _I<name>`.
InInterfaceBlock(k) ==
    \E h \in 1..(Len(gen.out) - 1) :
        /\ StartsWith(gen.out[h].text, "in _I") \/ StartsWith(gen.out[h].text, "out _I")
        /\ IsScopeOpen(h + 1)
        /\ h + 1 < k
        /\ \E j \in 1..Len(gen.out) : ClosesAt(h + 1, j) /\ k < j

\* C29: the indentation depth is never negative; on every successful
\* generation each opened scope is closed again, the depth is back at its
\* initial value, isInsideEntryPoint_ was true exactly while the statements
\* of the entry point's body were emitted and isInsideInterfaceBlock_
\* exactly while the members of an interface block were emitted, and both
\* are false at the end.
C29_ScopedStateRestored ==
    /\ gen.indent >= 0
    /\ \A k \in 1..Len(gen.out) : gen.out[k].indent >= 0
    /\ pc = "done" =>
           /\ gen.indent = 0
           /\ ~gen.isInsideEntryPoint
           /\ ~gen.isInsideInterfaceBlock
           /\ ScopesMatched
           /\ \A k \in 1..Len(gen.out) :
                  /\ gen.out[k].entry <=> InEntryPointBody(k)
                  /\ gen.out[k].block <=> InInterfaceBlock(k)

\* An interface block and an entry point whose body holds a loop with an
\* indented body inside a code block.
C29_Witness ==
    /\ pc = "done"
    /\ gen.indent = 0
    /\ \E k \in 1..Len(gen.out) : gen.out[k].block
    /\ \E k \in 1..Len(gen.out) :
           gen.out[k].entry /\ gen.out[k].indent = 3 /\ gen.out[k].text = "{"
    /\ \E k \in 1..Len(gen.out) : gen.out[k].text = "while (c)" /\ gen.out[k].indent = 1

====
